-------------------------- MODULE LiveReads_proofs --------------------------
(***************************************************************************)
(* What a user reads of a live robot.  The first part is about graph_diff: *)
(* its ring is the tail of its history, for every robot, every bag and     *)
(* every size of the ring.  The second is about inspect_tf and             *)
(* sample_messages: for every bus, budget and window they end in time,     *)
(* what they leave out they tell, and the report is true of the transforms *)
(* that were heard, however many frames there are.                         *)
(***************************************************************************)
EXTENDS GraphHistory, RosReads, OrderedMapLemmas, FiniteSetTheorems

(* The history is a sequence, nothing is held before the first call, and a *)
(* snapshot being taken has an id field to be given its number in.         *)
Shape ==
  /\ \E S : history \in Seq(S)
  /\ seeded \in BOOLEAN
  /\ ~seeded => history = <<>> /\ pc = "idle"
  /\ pc \in {"topics", "counts", "endpoints", "taken"} => "id" \in DOMAIN part

IInv == Shape /\ RingIsHistory

LEMMA Initially == Init => IInv
<1> SUFFICES ASSUME Init PROVE IInv  OBVIOUS
<1>1. history = <<>> /\ ring = <<>> /\ next = 1 /\ ~seeded /\ pc = "idle"
      /\ seeded \in BOOLEAN
  BY DEF Init
<1>2. history \in Seq({})  BY <1>1
<1>3. Shape  BY <1>1, <1>2 DEF Shape
<1>4. EverHeld = <<>>  BY <1>1, <1>2, ConcatEmptySeq DEF EverHeld
<1>5. Newest(<<>>, RingSize) = <<>>  BY RingAssumption DEF Newest
<1> QED  BY <1>1, <1>3, <1>4, <1>5 DEF IInv, RingIsHistory

(* A step that stores nothing and seeds nothing. *)
LEMMA StoresNothing ==
  ASSUME IInv, UNCHANGED <<mode, ring, next, seeded, history>>, Mock => past' = past
  PROVE  RingIsHistory'
<1>1. EverHeld' = EverHeld
  <2>1. CASE Mock /\ seeded
    <3>1. SeedSnapshot' = SeedSnapshot  BY <2>1 DEF SeedSnapshot, LiveSnapshot, Now
    <3> QED  BY <2>1, <3>1 DEF EverHeld, Mock
  <2>2. CASE ~(Mock /\ seeded)  BY <2>2 DEF EverHeld, Mock
  <2> QED  BY <2>1, <2>2
<1> QED  BY <1>1 DEF IInv, RingIsHistory

(* The first call of the process puts snap-0 in the ring; no other does. *)
LEMMA BeginKeeps ==
  ASSUME IInv, NEW kind, NEW value, NEW bagPath, Begin(kind, value, bagPath)
  PROVE  IInv'
<1>1. /\ ring' = AfterSeed /\ seeded' = TRUE
      /\ mode' = mode /\ past' = past /\ next' = next /\ history' = history
      /\ pc' \in {"idle", "nodes", "bag"}
  BY DEF Begin, Fails
<1>2. Shape'
  BY <1>1 DEF IInv, Shape
<1>3. SeedSnapshot' = SeedSnapshot  BY <1>1 DEF SeedSnapshot, LiveSnapshot, Now
<1>4. CASE seeded
  <2>1. ring' = ring /\ seeded' = seeded  BY <1>1, <1>4 DEF AfterSeed, IInv, Shape
  <2> QED  BY <1>1, <1>2, <2>1, StoresNothing DEF IInv
<1>5. CASE ~seeded /\ ~Mock
  <2>1. ring' = ring  BY <1>1, <1>5 DEF AfterSeed
  <2>2. EverHeld' = EverHeld  BY <1>1, <1>5 DEF EverHeld, Mock
  <2> QED  BY <1>1, <1>2, <2>1, <2>2 DEF IInv, RingIsHistory
<1>6. CASE ~seeded /\ Mock
  <2> DEFINE s0 == SeedSnapshot
  <2>1. history = <<>>  BY <1>6 DEF IInv, Shape
  <2>2. <<>> \in Seq({s0}) /\ <<s0>> \in Seq({s0})  OBVIOUS
  <2>3. EverHeld = <<>>  BY <1>6, <2>1, <2>2, ConcatEmptySeq DEF EverHeld
  <2>4. EverHeld' = <<s0>>
    <3>1. EverHeld' = <<s0>> \o <<>>
      BY <1>1, <1>3, <1>6, <2>1 DEF EverHeld, Mock
    <3> QED  BY <2>2, <3>1, ConcatEmptySeq
  <2>5. ring' = Push(Newest(<<>>, RingSize), s0, RingSize)
    BY <1>1, <1>6, <2>3 DEF AfterSeed, IInv, RingIsHistory
  <2>6. Append(<<>>, s0) = <<s0>>  OBVIOUS
  <2> HIDE DEF s0
  <2>7. ring' = Newest(<<s0>>, RingSize)
    BY <2>2, <2>5, <2>6, PushNewest, RingAssumption
  <2> QED  BY <1>1, <1>2, <2>4, <2>7 DEF IInv, RingIsHistory
<1> QED  BY <1>4, <1>5, <1>6

(* An answer stores one snapshot, under the next number. *)
LEMMA AnswerKeeps ==
  ASSUME IInv, Answer
  PROVE  IInv'
<1> DEFINE cur  == Stored(part)
           held == IF Mock /\ seeded THEN <<SeedSnapshot>> ELSE <<>>
<1>1. /\ ring' = Push(ring, cur, RingSize) /\ history' = Append(history, cur)
      /\ next' = next + 1 /\ pc' = "idle"
      /\ mode' = mode /\ past' = past /\ seeded' = seeded /\ pc = "taken"
  BY DEF Answer
<1>2. cur.id = next
  BY <1>1 DEF IInv, Shape, Stored
<1>3. PICK S : history \in Seq(S)  BY DEF IInv, Shape
<1> DEFINE T == S \cup {cur, SeedSnapshot}
<1>4. SeedSnapshot' = SeedSnapshot  BY <1>1 DEF SeedSnapshot, LiveSnapshot, Now
<1>5. EverHeld = held \o history /\ EverHeld' = held \o Append(history, cur)
  BY <1>1, <1>4 DEF EverHeld, Mock
<1>6. cur \in T /\ SeedSnapshot \in T  OBVIOUS
<1>7. history \in Seq(T)  BY <1>3, SeqMonotonic
<1>8. held \in Seq(T)
  <2>1. <<SeedSnapshot>> \in Seq(T) /\ <<>> \in Seq(T)  BY <1>6
  <2> HIDE DEF T
  <2>2. held = <<SeedSnapshot>> \/ held = <<>>  OBVIOUS
  <2> QED  BY <2>1, <2>2
<1> HIDE DEF cur, held, T
<1>9. Append(history, cur) = history \o <<cur>> /\ <<cur>> \in Seq(T)
  BY <1>6, <1>7, AppendIsConcat
<1>10. held \o history \in Seq(T)  BY <1>7, <1>8, ConcatProperties
<1>11. held \o Append(history, cur) = Append(held \o history, cur)
  BY <1>6, <1>7, <1>8, <1>9, <1>10, ConcatAssociative, AppendIsConcat
<1>12. ring' = Newest(EverHeld', RingSize)
  <2>1. ring = Newest(held \o history, RingSize)
    BY <1>5 DEF IInv, RingIsHistory
  <2>2. Push(Newest(held \o history, RingSize), cur, RingSize)
          = Newest(Append(held \o history, cur), RingSize)
    BY <1>6, <1>10, PushNewest, RingAssumption
  <2> QED  BY <1>1, <1>5, <1>11, <2>1, <2>2
<1>13. /\ Len(history') = Len(history) + 1 /\ Len(history) \in Nat
       /\ history'[Len(history) + 1] = cur
       /\ \A k \in 1..Len(history) : history'[k] = history[k]
  BY <1>1, <1>6, <1>7
<1>14. next' = Len(history') + 1 /\ \A k \in 1..Len(history') : history'[k].id = k
  BY <1>1, <1>2, <1>13 DEF IInv, RingIsHistory
<1>15. Shape'
  <2>1. history' \in Seq(T)  BY <1>1, <1>6, <1>7
  <2>2. seeded  BY <1>1 DEF IInv, Shape
  <2> QED  BY <1>1, <2>1, <2>2 DEF Shape
<1> QED  BY <1>12, <1>14, <1>15 DEF IInv, RingIsHistory

LEMMA StepKeeps == IInv /\ [Next]_vars => IInv'
<1> SUFFICES ASSUME IInv, [Next]_vars PROVE IInv'  OBVIOUS
<1>1. CASE Changes
  <2>1. UNCHANGED <<mode, ring, next, seeded, history>> /\ ~Mock
        /\ UNCHANGED <<pc, part>>
    BY <1>1 DEF Changes, call
  <2>2. Shape'  BY <2>1 DEF IInv, Shape
  <2> QED  BY <2>1, <2>2, StoresNothing DEF IInv
<1>2. ASSUME NEW kind, NEW value, NEW bagPath, Begin(kind, value, bagPath)
      PROVE  IInv'
  BY <1>2, BeginKeeps
<1>3. CASE \/ TakeBag \/ ListNodes \/ ListTopics \/ MockTopics \/ ListFails
         \/ CountGraph \/ CountTopic \/ ListEndpoints \/ Refuse
  <2>1. UNCHANGED <<mode, ring, next, seeded, history, past>>
    BY <1>3 DEF TakeBag, ListNodes, ListTopics, MockTopics, ListFails, CountGraph,
                CountTopic, ListEndpoints, Refuse
  <2>2. seeded
    BY <1>3 DEF IInv, Shape, TakeBag, ListNodes, ListTopics, MockTopics, ListFails,
                CountGraph, CountTopic, ListEndpoints, Refuse
  <2>3. pc' \in {"topics", "counts", "endpoints", "taken"} => "id" \in DOMAIN part'
    <3>1. CASE TakeBag
      <4>1. pc' = "idle" \/ \E bag : part' = BagSnapshot(0, bag)
        BY <3>1 DEF TakeBag, Fails
      <4>2. \A bag : "id" \in DOMAIN BagSnapshot(0, bag)
        <5> TAKE bag
        <5> DEFINE shown == {t \in DOMAIN bag : ~bag[t].internal}
                   latched == {t \in shown : bag[t].latched # "unknown"}
                   topics == [t \in shown |-> [type |-> bag[t].type, rate |-> bag[t].rate]]
                   qos == [t \in latched |-> {bag[t].latched}]
                   kind == IF latched = {} THEN "none" ELSE "latched"
        <5>1. BagSnapshot(0, bag) =
                [id |-> 0, source |-> "bag", nodes |-> {}, topics |-> topics,
                 qos |-> qos, qosKind |-> kind, truncated |-> FALSE,
                 real |-> mode # "mock", taken |-> <<Now, Now>>]
          BY Zenon DEF BagSnapshot
        <5> HIDE DEF topics, qos, kind
        <5> QED  BY <5>1
      <4> QED  BY <4>1, <4>2
    <3>2. CASE ListNodes  BY <3>2 DEF ListNodes, LiveSnapshot
    <3>3. CASE ListTopics \/ MockTopics \/ CountGraph \/ CountTopic
      <4>1. DOMAIN part' = DOMAIN part
        BY <3>3 DEF ListTopics, MockTopics, CountGraph, CountTopic
      <4>2. pc \in {"topics", "counts", "endpoints"}
        BY <3>3 DEF ListTopics, MockTopics, CountGraph, CountTopic
      <4> QED  BY <4>1, <4>2 DEF IInv, Shape
    <3>4. CASE ListFails \/ Refuse  BY <3>4 DEF ListFails, Refuse, Fails
    <3>5. CASE ListEndpoints
      <4>1. DOMAIN part' = DOMAIN part  BY <3>5 DEF ListEndpoints
      <4> QED  BY <3>5, <4>1 DEF ListEndpoints, IInv, Shape
    <3> QED  BY <1>3, <3>1, <3>2, <3>3, <3>4, <3>5
  <2>4. Shape'  BY <2>1, <2>2, <2>3 DEF IInv, Shape
  <2> QED  BY <2>1, <2>4, StoresNothing DEF IInv
<1>4. CASE Answer  BY <1>4, AnswerKeeps
<1>5. CASE UNCHANGED vars
  <2>1. UNCHANGED <<mode, ring, next, seeded, history, past, pc, part>>
    BY <1>5 DEF vars
  <2>2. Shape'  BY <2>1 DEF IInv, Shape
  <2> QED  BY <2>1, <2>2, StoresNothing DEF IInv
<1> QED  BY <1>1, <1>2, <1>3, <1>4, <1>5 DEF Next, Diff

(* Whatever the robot does and whatever a client asks, the ring is the     *)
(* last RingSize snapshots ever stored and the k-th is snap-k: no failed   *)
(* or refused graph_diff stores, and nothing is dropped out of turn.       *)
THEOREM RingHolds == Spec => []RingIsHistory
<1>1. IInv => RingIsHistory  BY DEF IInv
<1> QED  BY Initially, StepKeeps, <1>1, PTL DEF Spec

(* Each entry of the ring is snap-0 or an entry of the history. *)
Entries ==
  \A i \in 1..Len(ring) :
    \/ Mock /\ ring[i] = SeedSnapshot
    \/ \E k \in 1..Len(history) : ring[i] = history[k]

LEMMA RingEntries == IInv => Entries
<1> SUFFICES ASSUME IInv, NEW i \in 1..Len(ring)
             PROVE  \/ Mock /\ ring[i] = SeedSnapshot
                    \/ \E k \in 1..Len(history) : ring[i] = history[k]
  BY DEF Entries
<1> DEFINE held == IF Mock /\ seeded THEN <<SeedSnapshot>> ELSE <<>>
<1>1. PICK S : history \in Seq(S)  BY DEF IInv, Shape
<1> DEFINE T == S \cup {SeedSnapshot}
<1>2. SeedSnapshot \in T  OBVIOUS
<1>3. history \in Seq(T)  BY <1>1, SeqMonotonic
<1> HIDE DEF T
<1>4. /\ held \in Seq(T) /\ Len(held) \in {0, 1}
      /\ \A m \in 1..Len(held) : Mock /\ held[m] = SeedSnapshot
  <2>1. CASE Mock /\ seeded
    <3>1. held = <<SeedSnapshot>>  BY <2>1
    <3> QED  BY <1>2, <2>1, <3>1
  <2>2. CASE ~(Mock /\ seeded)
    <3>1. held = <<>>  BY <2>2
    <3> QED  BY <3>1
  <2> QED  BY <2>1, <2>2
<1>5. EverHeld = held \o history  BY DEF EverHeld
<1> HIDE DEF held
<1>6. /\ EverHeld \in Seq(T) /\ Len(EverHeld) = Len(held) + Len(history)
      /\ \A m \in 1..(Len(held) + Len(history)) :
           EverHeld[m] = IF m <= Len(held) THEN held[m] ELSE history[m - Len(held)]
  BY <1>3, <1>4, <1>5, ConcatProperties
<1>7. PICK m \in 1..Len(EverHeld) : ring[i] = EverHeld[m]
  <2>1. ring = Newest(EverHeld, RingSize)  BY DEF IInv, RingIsHistory
  <2>2. CASE Len(EverHeld) <= RingSize
    <3>1. ring = EverHeld  BY <2>1, <2>2 DEF Newest
    <3> QED  BY <3>1
  <2>3. CASE ~(Len(EverHeld) <= RingSize)
    <3> DEFINE L == Len(EverHeld)
    <3>1. ring = SubSeq(EverHeld, L - RingSize + 1, L)  BY <2>1, <2>3 DEF Newest
    <3>2. L \in Nat /\ L > RingSize  BY <1>6, <2>3, RingAssumption
    <3>3. Len(ring) = RingSize /\ ring[i] = EverHeld[L - RingSize + i]
      BY <1>6, <3>1, <3>2, RingAssumption
    <3> QED  BY <3>2, <3>3, RingAssumption
  <2> QED  BY <2>2, <2>3
<1>8. CASE m <= Len(held)  BY <1>4, <1>6, <1>7, <1>8
<1>9. CASE ~(m <= Len(held))
  <2>1. Len(held) \in Nat /\ Len(history) \in Nat  BY <1>3, <1>4
  <2>2. m - Len(held) \in 1..Len(history)  BY <1>6, <1>9, <2>1
  <2> QED  BY <1>6, <1>7, <1>9, <2>2
<1> QED  BY <1>8, <1>9

(* The history only grows, and snap-0 stays what it is. *)
LEMMA StepGrows ==
  ASSUME [Next]_vars
  PROVE  /\ mode' = mode /\ (Mock => past' = past)
         /\ history' = history \/ \E s : history' = Append(history, s)
<1>1. CASE Changes  BY <1>1 DEF Changes
<1>2. ASSUME NEW kind, NEW value, NEW bagPath, Begin(kind, value, bagPath)
      PROVE  mode' = mode /\ past' = past /\ history' = history
  BY <1>2 DEF Begin
<1>3. CASE \/ TakeBag \/ ListNodes \/ ListTopics \/ MockTopics \/ ListFails
         \/ CountGraph \/ CountTopic \/ ListEndpoints \/ Refuse
  BY <1>3 DEF TakeBag, ListNodes, ListTopics, MockTopics, ListFails, CountGraph,
              CountTopic, ListEndpoints, Refuse
<1>4. CASE Answer
  <2>1. mode' = mode /\ past' = past /\ history' = Append(history, Stored(part))
    BY <1>4 DEF Answer
  <2> QED  BY <2>1
<1>5. CASE UNCHANGED vars  BY <1>5 DEF vars
<1> QED  BY <1>1, <1>2, <1>3, <1>4, <1>5 DEF Next, Diff

(* Two entries of the ring, one before a step and one after it, that have  *)
(* the same id are the same snapshot.                                      *)
IdsStand ==
  \A i \in 1..Len(ring), j \in 1..Len(ring') :
     ring[i].id = ring'[j].id => ring[i] = ring'[j]

LEMMA StepStands ==
  ASSUME IInv, [Next]_vars
  PROVE  IdsStand
<1> SUFFICES ASSUME NEW i \in 1..Len(ring), NEW j \in 1..Len(ring'),
                    ring[i].id = ring'[j].id
             PROVE  ring[i] = ring'[j]
  BY DEF IdsStand
<1>1. IInv'  BY StepKeeps
<1>2. /\ mode' = mode /\ (Mock => past' = past)
      /\ history' = history \/ \E s : history' = Append(history, s)
  BY StepGrows
<1>3. SeedSnapshot.id = 0  BY DEF SeedSnapshot, LiveSnapshot, Now
<1>4. Mock => SeedSnapshot' = SeedSnapshot
  BY <1>2 DEF SeedSnapshot, LiveSnapshot, Now
<1>5. Mock' = Mock  BY <1>2 DEF Mock
<1>6. \/ Mock /\ ring[i] = SeedSnapshot
      \/ \E k \in 1..Len(history) : ring[i] = history[k]
  BY RingEntries DEF Entries
<1>7. \/ Mock' /\ ring'[j] = SeedSnapshot'
      \/ \E k \in 1..Len(history') : ring'[j] = history'[k]
  <2>1. (IInv => Entries)'  BY RingEntries, PTL
  <2>2. Entries'  BY <1>1, <2>1
  <2> QED  BY <2>2 DEF Entries
<1>8. \A k \in 1..Len(history) : history[k].id = k
  BY DEF IInv, RingIsHistory
<1>9. \A k \in 1..Len(history') : history'[k].id = k
  BY <1>1 DEF IInv, RingIsHistory
<1>10. \A k \in 1..Len(history) : history'[k] = history[k] /\ k \in 1..Len(history')
  <2>1. PICK S : history \in Seq(S)  BY DEF IInv, Shape
  <2>2. ASSUME NEW s, history' = Append(history, s)
        PROVE  \A k \in 1..Len(history) :
                 history'[k] = history[k] /\ k \in 1..Len(history')
    <3> DEFINE T == S \cup {s}
    <3>1. s \in T  OBVIOUS
    <3>2. history \in Seq(T)  BY <2>1, SeqMonotonic
    <3> HIDE DEF T
    <3> QED  BY <2>2, <3>1, <3>2, AppendProperties
  <2> QED  BY <1>2, <2>2
<1>11. CASE Mock /\ ring[i] = SeedSnapshot
  BY <1>3, <1>4, <1>7, <1>9, <1>11
<1>12. CASE \E k \in 1..Len(history) : ring[i] = history[k]
  <2>1. PICK k \in 1..Len(history) : ring[i] = history[k]  BY <1>12
  <2>2. ring'[j].id = k /\ k # 0  BY <1>8, <2>1
  <2>3. \E l \in 1..Len(history') : ring'[j] = history'[l]
    BY <1>3, <1>4, <1>5, <1>7, <2>2
  <2> QED  BY <1>9, <1>10, <2>1, <2>2, <2>3
<1> QED  BY <1>6, <1>11, <1>12

(* A snapshot id means one snapshot for the life of the process: an id     *)
(* that a client was given never comes to name another one, however many   *)
(* were dropped from the ring in between (SnapshotRing.store and seed).    *)
THEOREM IdsNeverReused == Spec => [][IdsStand]_vars
<1>1. IInv /\ [Next]_vars => [IdsStand]_vars
  BY StepStands
<1> QED  BY Initially, StepKeeps, <1>1, PTL DEF Spec
-----------------------------------------------------------------------------
(* What the reports tell.  First the rules alone: a report applied to the  *)
(* picture of one snapshot gives the picture of the other.                 *)
LEMMA TopicChanges ==
  ASSUME NEW a, NEW b
  PROVE  /\ \A x \in DiffTopics(a, b) :
              \/ /\ x.change = "added" /\ x.name \in DOMAIN b.topics \ DOMAIN a.topics
                 /\ x.type = b.topics[x.name].type
              \/ /\ x.change = "removed"
                 /\ x.name \in DOMAIN a.topics \ DOMAIN b.topics
         /\ \A t \in DOMAIN b.topics \ DOMAIN a.topics :
              \E x \in DiffTopics(a, b) : x.change = "added" /\ x.name = t
         /\ \A t \in DOMAIN a.topics \ DOMAIN b.topics :
              \E x \in DiffTopics(a, b) : x.change = "removed" /\ x.name = t
<1> DEFINE new(t) == [change |-> "added", name |-> t, type |-> b.topics[t].type]
           old(t) == [change |-> "removed", name |-> t, type |-> a.topics[t].type]
<1>1. \A x : x \in DiffTopics(a, b) <=>
               \/ \E t \in DOMAIN b.topics \ DOMAIN a.topics : x = new(t)
               \/ \E t \in DOMAIN a.topics \ DOMAIN b.topics : x = old(t)
  BY DEF DiffTopics
<1>2. \A t : /\ new(t).change = "added" /\ new(t).name = t
             /\ new(t).type = b.topics[t].type
             /\ old(t).change = "removed" /\ old(t).name = t
  OBVIOUS
<1> HIDE DEF new, old
<1> QED  BY <1>1, <1>2

LEMMA NodeChanges ==
  ASSUME NEW a, NEW b, Live(a), Live(b)
  PROVE  /\ \A x \in DiffNodes(a, b) :
              \/ x.change = "added" /\ x.name \in b.nodes \ a.nodes
              \/ x.change = "removed" /\ x.name \in a.nodes \ b.nodes
         /\ \A n \in b.nodes \ a.nodes :
              \E x \in DiffNodes(a, b) : x.change = "added" /\ x.name = n
         /\ \A n \in a.nodes \ b.nodes :
              \E x \in DiffNodes(a, b) : x.change = "removed" /\ x.name = n
<1> DEFINE new(n) == [change |-> "added", name |-> n]
           old(n) == [change |-> "removed", name |-> n]
<1>1. \A x : x \in DiffNodes(a, b) <=>
               \/ \E n \in b.nodes \ a.nodes : x = new(n)
               \/ \E n \in a.nodes \ b.nodes : x = old(n)
  BY DEF DiffNodes
<1>2. \A n : /\ new(n).change = "added" /\ new(n).name = n
             /\ old(n).change = "removed" /\ old(n).name = n
  OBVIOUS
<1> HIDE DEF new, old
<1> QED  BY <1>1, <1>2

LEMMA TypeChanges ==
  ASSUME NEW a, NEW b
  PROVE  /\ \A x \in DiffTypes(a, b) :
              /\ x.name \in Common(a, b)
              /\ a.topics[x.name].type # b.topics[x.name].type
              /\ x.after = b.topics[x.name].type
         /\ \A t \in Common(a, b) :
              a.topics[t].type # b.topics[t].type =>
                \E x \in DiffTypes(a, b) : x.name = t
<1> DEFINE moved(t) == [name |-> t, after |-> b.topics[t].type]
<1>1. \A x : x \in DiffTypes(a, b) <=>
               \E t \in Common(a, b) :
                  a.topics[t].type # b.topics[t].type /\ x = moved(t)
  BY DEF DiffTypes
<1>2. \A t : moved(t).name = t /\ moved(t).after = b.topics[t].type  OBVIOUS
<1> HIDE DEF moved
<1> QED  BY <1>1, <1>2

LEMMA CountChanges ==
  ASSUME NEW a, NEW b, Live(a), Live(b)
  PROVE  /\ \A x \in DiffCounts(a, b) :
              /\ x.name \in Common(a, b) \ Builtin /\ x.field \in CountFields
              /\ a.topics[x.name][x.field] # b.topics[x.name][x.field]
              /\ x.after = b.topics[x.name][x.field]
         /\ \A t \in Common(a, b) \ Builtin, f \in CountFields :
              a.topics[t][f] # b.topics[t][f] =>
                \E x \in DiffCounts(a, b) : x.name = t /\ x.field = f
<1> DEFINE at(t, f) == [name |-> t, field |-> f]
           moved(d) == [name |-> d.name, field |-> d.field,
                        after |-> b.topics[d.name][d.field]]
           both == [name : Common(a, b), field : CountFields]
<1>1. \A d : d \in CountsMoved(a, b) <=>
               d \in both /\ a.topics[d.name][d.field] # b.topics[d.name][d.field]
  BY DEF CountsMoved
<1>2. \A d \in both : d.name \in Common(a, b) /\ d.field \in CountFields  OBVIOUS
<1>3. \A t \in Common(a, b), f \in CountFields :
         at(t, f) \in both /\ at(t, f).name = t /\ at(t, f).field = f
  OBVIOUS
<1>4. \A x : x \in DiffCounts(a, b) <=>
               \E d \in CountsMoved(a, b) : d.name \notin Builtin /\ x = moved(d)
  BY DEF DiffCounts
<1>5. \A d : /\ moved(d).name = d.name /\ moved(d).field = d.field
             /\ moved(d).after = b.topics[d.name][d.field]
  OBVIOUS
<1> HIDE DEF at, moved, both
<1>6. ASSUME NEW x \in DiffCounts(a, b)
      PROVE  /\ x.name \in Common(a, b) \ Builtin /\ x.field \in CountFields
             /\ a.topics[x.name][x.field] # b.topics[x.name][x.field]
             /\ x.after = b.topics[x.name][x.field]
  <2>1. PICK d \in CountsMoved(a, b) : d.name \notin Builtin /\ x = moved(d)  BY <1>4
  <2>2. d \in both /\ a.topics[d.name][d.field] # b.topics[d.name][d.field]
    BY <1>1, <2>1
  <2> QED  BY <1>2, <1>5, <2>1, <2>2
<1>7. ASSUME NEW t \in Common(a, b) \ Builtin, NEW f \in CountFields,
             a.topics[t][f] # b.topics[t][f]
      PROVE  \E x \in DiffCounts(a, b) : x.name = t /\ x.field = f
  <2>1. at(t, f) \in CountsMoved(a, b)  BY <1>1, <1>3, <1>7
  <2>2. moved(at(t, f)) \in DiffCounts(a, b)  BY <1>3, <1>4, <2>1
  <2> QED  BY <1>3, <1>5, <2>2
<1> QED  BY <1>6, <1>7

(* A report of a snapshot on another brings the picture of the first up to *)
(* the second's.                                                           *)
LEMMA Composes ==
  ASSUME NEW a, NEW b
  PROVE  Applied(Picture(a), DiffSnapshots(a, b), b) = Picture(b)
<1> DEFINE d == DiffSnapshots(a, b)
           p == Picture(a)
           gone  == {c.name : c \in {x \in d.topics : x.change = "removed"}}
           fresh == {c.name : c \in {x \in d.topics : x.change = "added"}}
           lost  == {c.name : c \in {x \in d.nodes : x.change = "removed"}}
           born  == {c.name : c \in {x \in d.nodes : x.change = "added"}}
           kept  == (DOMAIN p.types \ gone) \cup fresh
           after(changes) == (CHOOSE c \in changes : TRUE).after
           nodes == IF "nodes" \in d.notCompared THEN b.nodes
                    ELSE (p.nodes \ lost) \cup born
           retyped(t) == {c \in d.types : c.name = t}
           moved(t, f) == {c \in d.counts : c.name = t /\ c.field = f}
           typeOf(t) == IF t \in fresh
                        THEN (CHOOSE c \in d.topics : c.change = "added" /\ c.name = t).type
                        ELSE IF retyped(t) = {} THEN p.types[t] ELSE after(retyped(t))
           countOf(t, f) == IF moved(t, f) = {} THEN p.counts[t][f] ELSE after(moved(t, f))
           countsOf(t) == IF t \in fresh \cup Builtin THEN Counts(b)[t]
                          ELSE [f \in CountFields |-> countOf(t, f)]
           types == [t \in kept |-> typeOf(t)]
           counts == IF "counts" \in d.notCompared THEN Counts(b)
                     ELSE [t \in kept |-> countsOf(t)]
<1>1. Applied(p, d, b) = [nodes |-> nodes, types |-> types, counts |-> counts]
  BY Zenon DEF Applied
<1>2. /\ d.nodes = DiffNodes(a, b) /\ d.topics = DiffTopics(a, b)
      /\ d.types = DiffTypes(a, b) /\ d.counts = DiffCounts(a, b)
      /\ d.notCompared = NotCompared(a, b)
  BY DEF DiffSnapshots
<1>3. /\ p.nodes = a.nodes /\ DOMAIN p.types = DOMAIN a.topics
      /\ \A t \in DOMAIN a.topics : p.types[t] = a.topics[t].type
      /\ p.counts = Counts(a)
  BY DEF Picture
<1>4. "nodes" \in d.notCompared <=> ~(Live(a) /\ Live(b))
  BY <1>2 DEF NotCompared
<1>5. "counts" \in d.notCompared <=> ~(Live(a) /\ Live(b))
  BY <1>2 DEF NotCompared
<1> HIDE DEF d, p
<1>6. gone = DOMAIN a.topics \ DOMAIN b.topics /\ fresh = DOMAIN b.topics \ DOMAIN a.topics
  <2>1. \A t : t \in gone <=> \E x \in DiffTopics(a, b) : x.change = "removed" /\ x.name = t
    BY <1>2
  <2>2. \A t : t \in fresh <=> \E x \in DiffTopics(a, b) : x.change = "added" /\ x.name = t
    BY <1>2
  <2> HIDE DEF gone, fresh
  <2> QED  BY <2>1, <2>2, TopicChanges
<1> HIDE DEF gone, fresh
<1>7. kept = DOMAIN b.topics  BY <1>3, <1>6
<1> HIDE DEF kept
<1>8. nodes = b.nodes
  <2>1. CASE Live(a) /\ Live(b)
    <3>1. nodes = (a.nodes \ lost) \cup born  BY <1>3, <1>4, <2>1
    <3>2. \A n : n \in lost <=> \E x \in DiffNodes(a, b) : x.change = "removed" /\ x.name = n
      BY <1>2
    <3>3. \A n : n \in born <=> \E x \in DiffNodes(a, b) : x.change = "added" /\ x.name = n
      BY <1>2
    <3> HIDE DEF lost, born
    <3>4. lost = a.nodes \ b.nodes /\ born = b.nodes \ a.nodes
      BY <2>1, <3>2, <3>3, NodeChanges
    <3> QED  BY <3>1, <3>4
  <2>2. CASE ~(Live(a) /\ Live(b))  BY <1>4, <2>2
  <2> QED  BY <2>1, <2>2
<1>9. ASSUME NEW t \in DOMAIN b.topics PROVE typeOf(t) = b.topics[t].type
  <2>1. CASE t \in fresh
    <3>1. \E c \in d.topics : c.change = "added" /\ c.name = t
      BY <1>2, <1>6, <2>1, TopicChanges
    <3>2. PICK x \in d.topics :
            /\ x = CHOOSE c \in d.topics : c.change = "added" /\ c.name = t
            /\ x.change = "added" /\ x.name = t
      BY <3>1
    <3>3. x.type = b.topics[t].type  BY <1>2, <3>2, TopicChanges
    <3> QED  BY <2>1, <3>2, <3>3
  <2>2. CASE t \notin fresh
    <3>1. t \in Common(a, b)  BY <1>6, <2>2 DEF Common
    <3>2. CASE retyped(t) = {}
      <4>1. a.topics[t].type = b.topics[t].type  BY <1>2, <3>1, <3>2, TypeChanges
      <4>2. typeOf(t) = p.types[t]  BY <2>2, <3>2
      <4> QED  BY <1>3, <3>1, <4>1, <4>2 DEF Common
    <3>3. CASE retyped(t) # {}
      <4>1. PICK x \in retyped(t) : x = CHOOSE c \in retyped(t) : TRUE  BY <3>3
      <4>2. typeOf(t) = x.after  BY <2>2, <3>3, <4>1
      <4>3. x \in DiffTypes(a, b) /\ x.name = t  BY <1>2, <4>1
      <4> QED  BY <4>2, <4>3, TypeChanges
    <3> QED  BY <3>2, <3>3
  <2> QED  BY <2>1, <2>2
<1>10. types = [t \in DOMAIN b.topics |-> b.topics[t].type]
  <2> HIDE DEF typeOf
  <2> QED  BY <1>7, <1>9
<1>11. counts = Counts(b)
  <2>1. CASE Live(a) /\ Live(b)
    <3>1. /\ Counts(b) = [t \in DOMAIN b.topics |-> [f \in CountFields |-> b.topics[t][f]]]
          /\ Counts(a) = [t \in DOMAIN a.topics |-> [f \in CountFields |-> a.topics[t][f]]]
      BY <2>1 DEF Counts
    <3>2. counts = [t \in kept |-> countsOf(t)]  BY <1>5, <2>1
    <3>3. ASSUME NEW t \in DOMAIN b.topics
          PROVE  countsOf(t) = [f \in CountFields |-> b.topics[t][f]]
      <4>1. CASE t \in fresh \cup Builtin  BY <3>1, <4>1
      <4>2. CASE t \notin fresh \cup Builtin
        <5>1. t \in Common(a, b) \ Builtin  BY <1>6, <4>2 DEF Common
        <5>2. ASSUME NEW f \in CountFields PROVE countOf(t, f) = b.topics[t][f]
          <6>1. CASE moved(t, f) = {}
            <7>1. a.topics[t][f] = b.topics[t][f]
              BY <1>2, <2>1, <5>1, <6>1, CountChanges
            <7>2. countOf(t, f) = p.counts[t][f]  BY <6>1
            <7>3. p.counts[t][f] = a.topics[t][f]  BY <1>3, <3>1, <5>1 DEF Common
            <7> QED  BY <7>1, <7>2, <7>3
          <6>2. CASE moved(t, f) # {}
            <7>1. PICK x \in moved(t, f) : x = CHOOSE c \in moved(t, f) : TRUE  BY <6>2
            <7>2. countOf(t, f) = x.after  BY <6>2, <7>1
            <7>3. x \in DiffCounts(a, b) /\ x.name = t /\ x.field = f  BY <1>2, <7>1
            <7> QED  BY <2>1, <7>2, <7>3, CountChanges
          <6> QED  BY <6>1, <6>2
        <5>3. countsOf(t) = [f \in CountFields |-> countOf(t, f)]  BY <4>2
        <5> HIDE DEF countOf
        <5> QED  BY <5>2, <5>3
      <4> QED  BY <4>1, <4>2
    <3> HIDE DEF countsOf
    <3> QED  BY <1>7, <3>1, <3>2, <3>3
  <2>2. CASE ~(Live(a) /\ Live(b))  BY <1>5, <2>2
  <2> QED  BY <2>1, <2>2
<1> HIDE DEF nodes, types, counts
<1>12. Applied(p, d, b) = Picture(b)  BY <1>1, <1>8, <1>10, <1>11 DEF Picture
<1> QED  BY <1>12 DEF d, p

-----------------------------------------------------------------------------
(* Where what is told comes from.  A snapshot of the live graph is made of *)
(* what the robot had at moments of its reading: nodes of one, topics and  *)
(* types of one, of each topic counts of one unless they read zero, and    *)
(* the QoS of every writer unless the listing was cut or gives none.       *)
(* W is the moments of a reading.                                          *)
Listed(topics, W) ==
  \E i \in W : /\ DOMAIN topics = DOMAIN past[i].topics
               /\ \A t \in DOMAIN topics : topics[t].type = past[i].topics[t].type

(* Topic t had the counts of c. *)
Had(t, c, W) ==
  \E i \in W : /\ t \in DOMAIN past[i].topics
               /\ \A f \in CountFields : c[f] = past[i].topics[t][f]

Heard(s, g) ==
  s.qosKind # "none" => /\ s.qos = Profiles(g.listed)
                        /\ ~s.truncated => g.listed = g.writers

Witnessed(s) ==
  Live(s) =>
    /\ s.taken[1] \in 1..Now /\ s.taken[2] \in 1..Now
    /\ \E i \in s.taken[1]..s.taken[2] : s.nodes = past[i].nodes
    /\ Listed(s.topics, s.taken[1]..s.taken[2])
    /\ \A t \in DOMAIN s.topics :
         ReadsZero(s, t) \/ Had(t, s.topics[t], s.taken[1]..s.taken[2])
    /\ \E i \in s.taken[1]..s.taken[2] : Heard(s, past[i])

(* A snapshot of which the nodes, and the topics so far, are read. *)
Read(nodes, topics, first) ==
  LiveSnapshot(nodes, topics, <<>>, "none", FALSE, <<first, first>>)

SnapshotFields ==
  {"id", "source", "nodes", "topics", "qos", "qosKind", "truncated", "real", "taken"}

Reading ==
  /\ pc = "topics" =>
       \E i \in 1..Now : part = Read(past[i].nodes, <<>>, i)
  /\ pc \in {"counts", "endpoints"} =>
       \E i \in 1..Now :
          /\ part = Read(past[i].nodes, part.topics, i)
          /\ Listed(part.topics, i..Now)
          /\ \A t \in DOMAIN part.topics :
               t \in Uncounted \/ ReadsZero(part, t) \/ Had(t, part.topics[t], i..Now)
  /\ pc = "taken" => DOMAIN part = SnapshotFields /\ Witnessed(part)

(* The baseline is a bag, snap-0 or the stored snapshot of its number. *)
Based ==
  \/ base = NoSnapshot
  \/ base.id \notin 1..Len(history) /\ (Live(base) => base.id = 0)
  \/ base.id \in 1..Len(history) /\ base = history[base.id]

Told == told = [k \in 1..Len(history) |-> Picture(history[k])]

Stands == \A k \in 1..Len(history) : Witnessed(history[k])

Replied ==
  reply.status = "diff" =>
    /\ reply.result = DiffSnapshots(reply.base, reply.current)
    /\ Witnessed(reply.current)
    /\ reply.base.id # 0 => Witnessed(reply.base)

Past == (\E S : past \in Seq(S)) /\ Now \in Nat \ {0}

TellsInv == Past /\ Reading /\ Based /\ Told /\ Stands /\ Replied

LEMMA TellsInit == Init => TellsInv
<1> SUFFICES ASSUME Init PROVE TellsInv  OBVIOUS
<1>1. /\ history = <<>> /\ told = <<>> /\ base = NoSnapshot /\ pc = "idle"
      /\ reply = NoReply
  BY DEF Init
<1>2. Past
  <2>1. PICK g : past = <<g>>  BY DEF Init
  <2>2. past \in Seq({g}) /\ Len(past) = 1  BY <2>1
  <2> QED  BY <2>2 DEF Past, Now
<1>3. Len(history) = 0 /\ 1..0 = {}  BY <1>1
<1>4. Told
  <2> DEFINE pictures == [k \in 1..Len(history) |-> Picture(history[k])]
  <2>1. pictures \in Seq({Picture(history[k]) : k \in 1..0}) /\ Len(pictures) = 0
    BY <1>3, SeqDef, LenProperties
  <2> HIDE DEF pictures
  <2>2. pictures = <<>>  BY <2>1, EmptySeq
  <2> QED  BY <1>1, <2>2 DEF Told, pictures
<1> QED  BY <1>1, <1>2, <1>3, <1>4 DEF TellsInv, Reading, Based, Stands, Replied, NoReply

(* The graphs the robot has had are only ever added to. *)
LEMMA PastGrows ==
  ASSUME Past, past' = past \/ \E g : past' = Append(past, g)
  PROVE  /\ Past' /\ Now <= Now' /\ Now \in Nat /\ Now' \in Nat
         /\ \A i \in 1..Now : past'[i] = past[i]
<1>1. CASE past' = past  BY <1>1 DEF Past, Now
<1>2. ASSUME NEW g, past' = Append(past, g)
      PROVE  /\ Past' /\ Now <= Now' /\ Now \in Nat /\ Now' \in Nat
             /\ \A i \in 1..Now : past'[i] = past[i]
  <2>1. PICK S : past \in Seq(S)  BY DEF Past
  <2> DEFINE T == S \cup {g}
  <2>2. g \in T  OBVIOUS
  <2>3. past \in Seq(T)  BY <2>1, SeqMonotonic
  <2> HIDE DEF T
  <2>4. /\ past' \in Seq(T) /\ Len(past') = Len(past) + 1
        /\ \A i \in 1..Len(past) : past'[i] = past[i]
    BY <1>2, <2>2, <2>3, AppendProperties
  <2> QED  BY <2>4 DEF Past, Now
<1> QED  BY <1>1, <1>2

(* What was so at some moments was so then, whatever happens since.        *)
LEMMA StillSo ==
  ASSUME Past, past' = past \/ \E g : past' = Append(past, g),
         NEW W \in SUBSET (1..Now), NEW V, W \subseteq V
  PROVE  /\ \A topics : Listed(topics, W) => Listed(topics, V)'
         /\ \A t, c : Had(t, c, W) => Had(t, c, V)'
<1>1. \A i \in W : past'[i] = past[i] /\ i \in V  BY PastGrows
<1>2. ASSUME NEW topics, Listed(topics, W) PROVE Listed(topics, V)'
  BY <1>1, <1>2 DEF Listed
<1>3. ASSUME NEW t, NEW c, Had(t, c, W) PROVE Had(t, c, V)'
  BY <1>1, <1>3 DEF Had
<1> QED  BY <1>2, <1>3

LEMMA StillWitnessed ==
  ASSUME Past, past' = past \/ \E g : past' = Append(past, g), NEW s, Witnessed(s)
  PROVE  Witnessed(s)'
<1> SUFFICES ASSUME Live(s) PROVE Witnessed(s)'  BY DEF Witnessed
<1>1. /\ Now <= Now' /\ Now \in Nat /\ Now' \in Nat
      /\ \A i \in 1..Now : past'[i] = past[i]
  BY PastGrows
<1>2. s.taken[1] \in 1..Now /\ s.taken[2] \in 1..Now  BY DEF Witnessed
<1>3. \A i \in s.taken[1]..s.taken[2] : past'[i] = past[i]  BY <1>1, <1>2
<1>4. s.taken[1] \in 1..Now' /\ s.taken[2] \in 1..Now'  BY <1>1, <1>2
<1>5. \E i \in s.taken[1]..s.taken[2] : s.nodes = past'[i].nodes
  BY <1>3 DEF Witnessed
<1>6. /\ Listed(s.topics, s.taken[1]..s.taken[2])'
      /\ \A t \in DOMAIN s.topics :
           ReadsZero(s, t) \/ Had(t, s.topics[t], s.taken[1]..s.taken[2])'
  <2>1. s.taken[1]..s.taken[2] \in SUBSET (1..Now)  BY <1>1, <1>2
  <2> QED  BY <2>1, StillSo DEF Witnessed
<1>7. PICK i \in s.taken[1]..s.taken[2] : Heard(s, past[i])  BY DEF Witnessed
<1>8. Heard(s, past'[i])  BY <1>3, <1>7
<1> QED  BY <1>4, <1>5, <1>6, <1>8 DEF Witnessed

(* A step that ends no call: only what is being read, or the baseline, is  *)
(* left to show.                                                           *)
LEMMA NothingTold ==
  ASSUME TellsInv, UNCHANGED <<history, told>>,
         past' = past \/ \E g : past' = Append(past, g),
         reply' = reply \/ reply'.status # "diff",
         Reading', Based'
  PROVE  TellsInv'
<1>1. Past /\ Past'  BY PastGrows DEF TellsInv
<1>2. Stands'
  <2>1. ASSUME NEW k \in 1..Len(history) PROVE Witnessed(history[k])'
    <3>1. PICK s : s = history[k]  OBVIOUS
    <3>2. Witnessed(s)'  BY <1>1, <3>1, StillWitnessed DEF TellsInv, Stands
    <3>3. history'[k] = s  BY <3>1
    <3> QED  BY <3>2, <3>3 DEF Witnessed
  <2> QED  BY <2>1 DEF Stands
<1>3. Replied'
  <2>1. CASE reply' = reply
    <3>1. PICK a, b : a = reply.base /\ b = reply.current  OBVIOUS
    <3>2. Witnessed(a) => Witnessed(a)'  BY <1>1, StillWitnessed
    <3>3. Witnessed(b) => Witnessed(b)'  BY <1>1, StillWitnessed
    <3>4. /\ reply.status = "diff" =>
               /\ reply.result = DiffSnapshots(reply.base, reply.current)
               /\ Witnessed(b) /\ (a.id # 0 => Witnessed(a))
      BY <3>1 DEF TellsInv, Replied
    <3>5. reply'.base = a /\ reply'.current = b  BY <2>1, <3>1
    <3>6. (Witnessed(a)' => Witnessed(reply.base)') /\ (Witnessed(b)' => Witnessed(reply.current)')
      BY <3>5 DEF Witnessed
    <3> QED  BY <2>1, <3>1, <3>2, <3>3, <3>4, <3>6 DEF Replied
  <2>2. CASE reply'.status # "diff"  BY <2>2 DEF Replied
  <2> QED  BY <2>1, <2>2
<1>4. Told'  BY DEF TellsInv, Told
<1> QED  BY <1>1, <1>2, <1>3, <1>4 DEF TellsInv

LEMMA RingSequence == IInv => \E S : ring \in Seq(S)
<1> SUFFICES ASSUME IInv PROVE \E S : ring \in Seq(S)  OBVIOUS
<1>1. PICK S : history \in Seq(S)  BY DEF IInv, Shape
<1> DEFINE T == S \cup {SeedSnapshot}
<1>2. SeedSnapshot \in T  OBVIOUS
<1>3. history \in Seq(T)  BY <1>1, SeqMonotonic
<1> HIDE DEF T
<1>4. EverHeld \in Seq(T)
  <2>1. <<SeedSnapshot>> \in Seq(T) /\ <<>> \in Seq(T)  BY <1>2
  <2>2. EverHeld = <<SeedSnapshot>> \o history \/ EverHeld = <<>> \o history
    BY DEF EverHeld
  <2> QED  BY <1>3, <2>1, <2>2, ConcatProperties
<1>5. ring = Newest(EverHeld, RingSize)  BY DEF IInv, RingIsHistory
<1>6. CASE Len(EverHeld) <= RingSize  BY <1>4, <1>5, <1>6 DEF Newest
<1>7. CASE ~(Len(EverHeld) <= RingSize)
  <2>1. ring = SubSeq(EverHeld, Len(EverHeld) - RingSize + 1, Len(EverHeld))
    BY <1>5, <1>7 DEF Newest
  <2>2. /\ Len(EverHeld) \in Nat
        /\ \A i \in (Len(EverHeld) - RingSize + 1)..Len(EverHeld) :
              i \in 1..Len(EverHeld)
    BY <1>4, <1>7, RingAssumption
  <2>3. \A i \in (Len(EverHeld) - RingSize + 1)..Len(EverHeld) : EverHeld[i] \in T
    BY <1>4, <2>2, ElementOfSeq
  <2>4. Len(EverHeld) - RingSize + 1 \in Int /\ Len(EverHeld) \in Int
    BY <2>2, RingAssumption
  <2> QED  BY <2>1, <2>3, <2>4, SubSeqProperties
<1> QED  BY <1>6, <1>7

(* A baseline is found in the ring or in a bag. *)
LEMMA BeginTells ==
  ASSUME IInv, TellsInv, NEW kind \in {"previous", "id", "bag"}, NEW value, NEW bagPath,
         kind = "bag" => value \in Paths,
         Begin(kind, value, bagPath)
  PROVE  TellsInv'
<1>1. /\ mode' = mode /\ past' = past /\ history' = history /\ told' = told
      /\ ring' = AfterSeed /\ pc' \in {"idle", "nodes", "bag"}
      /\ reply'.status # "diff"
  BY DEF Begin, Fails, NoReply
<1>2. IInv'  BY BeginKeeps
<1>3. Reading'  BY <1>1 DEF Reading
<1>4. ASSUME NEW i \in 1..Len(AfterSeed), base' = AfterSeed[i] PROVE Based'
  <2>1. Entries'
    <3>1. (IInv => Entries)'  BY RingEntries, PTL
    <3> QED  BY <1>2, <3>1
  <2>2. \/ base' = SeedSnapshot'
        \/ \E k \in 1..Len(history') : base' = history'[k]
    BY <1>1, <1>4, <2>1 DEF Entries
  <2>3. SeedSnapshot'.id = 0  BY DEF SeedSnapshot, LiveSnapshot, Now
  <2>4. \A k \in 1..Len(history') : history'[k].id = k
    BY <1>2 DEF IInv, RingIsHistory
  <2>5. 0 \notin 1..Len(history')
    <3>1. PICK S : history' \in Seq(S)  BY <1>2 DEF IInv, Shape
    <3> QED  BY <3>1
  <2> QED  BY <2>2, <2>3, <2>4, <2>5 DEF Based
<1>5. ASSUME base' = NoSnapshot PROVE Based'  BY <1>5 DEF Based
<1>6. ASSUME kind = "previous" /\ base' # NoSnapshot PROVE Based'
  <2>1. base' = Latest(AfterSeed)  BY <1>6 DEF Begin, Fails
  <2>2. AfterSeed # <<>> /\ base' = AfterSeed[Len(AfterSeed)]  BY <1>6, <2>1 DEF Latest
  <2>3. \E S : AfterSeed \in Seq(S)
    <3>1. (IInv => \E S : ring \in Seq(S))'  BY RingSequence, PTL
    <3> QED  BY <1>1, <1>2, <3>1
  <2>4. Len(AfterSeed) \in 1..Len(AfterSeed)  BY <2>2, <2>3, EmptySeq
  <2>5. PICK i \in 1..Len(AfterSeed) : base' = AfterSeed[i]  BY <2>2, <2>4
  <2> QED  BY <1>4, <2>5
<1>7. ASSUME kind = "id" /\ base' # NoSnapshot PROVE Based'
  <2>1. base' = Get(AfterSeed, value) /\ base' # Unreadable
    BY <1>7 DEF Begin, Fails
  <2>2. PICK i \in 1..Len(AfterSeed) : AfterSeed[i].id = value
    BY <2>1 DEF Get
  <2> DEFINE first(j) == /\ AfterSeed[j].id = value
                         /\ \A l \in 1..(j - 1) : AfterSeed[l].id # value
  <2>3. \E j \in 1..Len(AfterSeed) : first(j)
    <3>1. PICK S : AfterSeed \in Seq(S)
      <4>1. (IInv => \E S : ring \in Seq(S))'  BY RingSequence, PTL
      <4> QED  BY <1>1, <1>2, <4>1
    <3> DEFINE M == {j \in 1..Len(AfterSeed) : AfterSeed[j].id = value}
    <3>2. M # {} /\ M \subseteq Nat  BY <2>2, <3>1
    <3>3. PICK j \in M : \A l \in M : j <= l  BY <3>2, LeastElement
    <3>4. \A l \in 1..(j - 1) : l \in 1..Len(AfterSeed) /\ ~(j <= l)  BY <3>1, <3>3
    <3> QED  BY <3>3, <3>4
  <2>4. base' = AfterSeed[CHOOSE j \in 1..Len(AfterSeed) : first(j)]
    BY <2>1, <2>2 DEF Get
  <2> HIDE DEF first
  <2>5. (CHOOSE j \in 1..Len(AfterSeed) : first(j)) \in 1..Len(AfterSeed)  BY <2>3
  <2> QED  BY <1>4, <2>4, <2>5
<1>8. ASSUME kind = "bag" /\ base' # NoSnapshot PROVE Based'
  <2>1. base' = BagSnapshot(value, Analysis(value))  BY <1>8 DEF Begin, Fails
  <2>2. base'.id = value /\ base'.source = "bag"
    <3> DEFINE bag == Analysis(value)
               shown == {t \in DOMAIN bag : ~bag[t].internal}
               latched == {t \in shown : bag[t].latched # "unknown"}
               topics == [t \in shown |-> [type |-> bag[t].type, rate |-> bag[t].rate]]
               qos == [t \in latched |-> {bag[t].latched}]
               qosKind == IF latched = {} THEN "none" ELSE "latched"
    <3>1. base' = [id |-> value, source |-> "bag", nodes |-> {}, topics |-> topics,
                   qos |-> qos, qosKind |-> qosKind, truncated |-> FALSE,
                   real |-> mode # "mock", taken |-> <<Now, Now>>]
      BY <2>1, Zenon DEF BagSnapshot
    <3> HIDE DEF topics, qos, qosKind
    <3> QED  BY <3>1
  <2>3. value \notin 1..Len(history')
    <3>1. PICK S : history' \in Seq(S)  BY <1>2 DEF IInv, Shape
    <3> QED  BY <1>8, <3>1, PathAssumption
  <2> QED  BY <2>2, <2>3 DEF Based, Live
<1>9. Based'  BY <1>5, <1>6, <1>7, <1>8
<1> QED  BY <1>1, <1>3, <1>9, NothingTold

LEMMA ChangesTells == ASSUME TellsInv, Changes PROVE TellsInv'
<1>1. /\ \E g : past' = Append(past, g)
      /\ UNCHANGED <<pc, base, part, reply, history, told>>
  BY DEF Changes, call
<1>2. /\ Past /\ Now <= Now' /\ Now \in Nat /\ Now' \in Nat
      /\ \A i \in 1..Now : past'[i] = past[i]
  BY <1>1, PastGrows DEF TellsInv
<1>3. Reading'
  <2>1. ASSUME pc = "topics"
        PROVE  \E i \in 1..Now' : part' = Read(past'[i].nodes, <<>>, i)
    <3>1. PICK i \in 1..Now : part = Read(past[i].nodes, <<>>, i)
      BY <2>1 DEF TellsInv, Reading
    <3>2. i \in 1..Now' /\ past'[i] = past[i]  BY <1>2
    <3> QED  BY <1>1, <3>1, <3>2
  <2>2. ASSUME pc \in {"counts", "endpoints"}
        PROVE  \E i \in 1..Now' :
                 /\ part' = Read(past'[i].nodes, part'.topics, i)
                 /\ Listed(part.topics, i..Now)'
                 /\ \A t \in DOMAIN part'.topics :
                      \/ t \in Uncounted' \/ ReadsZero(part', t)
                      \/ Had(t, part.topics[t], i..Now)'
    <3>1. PICK i \in 1..Now :
            /\ part = Read(past[i].nodes, part.topics, i)
            /\ Listed(part.topics, i..Now)
            /\ \A t \in DOMAIN part.topics :
                 t \in Uncounted \/ ReadsZero(part, t) \/ Had(t, part.topics[t], i..Now)
      BY <2>2 DEF TellsInv, Reading
    <3>2. i \in 1..Now' /\ past'[i] = past[i]  BY <1>2
    <3>3. PICK topics, W, V : topics = part.topics /\ W = i..Now /\ V = i..Now'  OBVIOUS
    <3>4. W \in SUBSET (1..Now) /\ W \subseteq V  BY <1>2, <3>3
    <3>5. /\ Listed(topics, V)'
          /\ \A t : Had(t, topics[t], W) => Had(t, topics[t], V)'
      BY <1>1, <1>2, <3>1, <3>3, <3>4, StillSo
    <3>6. part' = part /\ Uncounted' = Uncounted  BY <1>1 DEF Uncounted
    <3>7. part'.topics = topics /\ i..Now' = V  BY <3>3, <3>6
    <3>8. Listed(part.topics, i..Now)'  BY <3>5, <3>7 DEF Listed
    <3>9. ASSUME NEW t, Had(t, topics[t], V)' PROVE Had(t, part.topics[t], i..Now)'
      BY <3>7, <3>9 DEF Had
    <3>10. part' = Read(past'[i].nodes, part'.topics, i)  BY <3>1, <3>2, <3>6
    <3>11. \A t \in DOMAIN part'.topics :
             \/ t \in Uncounted' \/ ReadsZero(part', t)
             \/ Had(t, part.topics[t], i..Now)'
      BY <3>1, <3>3, <3>5, <3>6, <3>9
    <3> QED  BY <3>2, <3>8, <3>10, <3>11
  <2>3. ASSUME pc = "taken" PROVE DOMAIN part' = SnapshotFields /\ Witnessed(part)'
    <3>1. PICK s : s = part  OBVIOUS
    <3>2. Witnessed(s)'
      BY <1>1, <1>2, <2>3, <3>1, StillWitnessed DEF TellsInv, Reading
    <3>3. part' = s  BY <1>1, <3>1
    <3> QED  BY <1>1, <2>3, <3>2, <3>3 DEF TellsInv, Reading, Witnessed
  <2>4. pc' = pc  BY <1>1
  <2> QED  BY <2>1, <2>2, <2>3, <2>4 DEF Reading, Read, LiveSnapshot
<1>4. Based'  BY <1>1 DEF TellsInv, Based
<1> QED  BY <1>1, <1>3, <1>4, NothingTold

(* The nodes, and then the topics with their types, are of one moment.     *)
LEMMA ReadTells ==
  ASSUME IInv, TellsInv, ListNodes \/ ListTopics \/ MockTopics
  PROVE  TellsInv'
<1>0. UNCHANGED <<past, base, reply, history, told>>
  BY DEF ListNodes, ListTopics, MockTopics
<1>1. /\ UNCHANGED <<past, base, reply, history, told>>
      /\ Now' = Now /\ Now \in 1..Now
  BY <1>0 DEF TellsInv, Past, Now
<1>2. Reading'
  <2>1. CASE ListNodes
    <3>1. part' = Read(past[Now].nodes, <<>>, Now) /\ pc' = "topics"
      BY <2>1 DEF ListNodes, Read, graph
    <3>2. past' = past /\ Now \in 1..Now'  BY <1>1
    <3>3. \E i \in 1..Now' : part' = Read(past'[i].nodes, <<>>, i)  BY <3>1, <3>2
    <3> QED  BY <3>1, <3>3 DEF Reading
  <2>2. ASSUME NEW topics, pc = "topics", pc' \in {"counts", "endpoints"},
               part' = [part EXCEPT !.topics = topics],
               DOMAIN topics = DOMAIN past[Now].topics,
               \A t \in DOMAIN topics :
                 /\ topics[t].type = past[Now].topics[t].type
                 /\ \/ CountFields \cap DOMAIN topics[t] = {}
                    \/ topics[t] = past[Now].topics[t]
        PROVE  Reading'
    <3>1. PICK i \in 1..Now : part = Read(past[i].nodes, <<>>, i)
      BY <2>2 DEF TellsInv, Reading
    <3>2. part' = Read(past[i].nodes, topics, i) /\ part'.topics = topics
      BY <2>2, <3>1 DEF Read, LiveSnapshot
    <3>3. i \in 1..Now' /\ Now \in i..Now' /\ past' = past  BY <1>1
    <3>4. Listed(part.topics, i..Now)'  BY <2>2, <3>2, <3>3 DEF Listed
    <3>5. ASSUME NEW t \in DOMAIN topics
          PROVE  t \in Uncounted' \/ Had(t, part.topics[t], i..Now)'
      <4>1. CASE CountFields \cap DOMAIN topics[t] = {}
        BY <3>2, <4>1 DEF Uncounted
      <4>2. CASE topics[t] = past[Now].topics[t]
        <5>1. t \in DOMAIN past'[Now].topics  BY <2>2, <3>3
        <5>2. \A f \in CountFields : part'.topics[t][f] = past'[Now].topics[t][f]
          BY <3>2, <3>3, <4>2
        <5> QED  BY <3>3, <5>1, <5>2 DEF Had
      <4> QED  BY <2>2, <4>1, <4>2
    <3> QED  BY <2>2, <3>2, <3>3, <3>4, <3>5 DEF Reading
  <2>3. CASE ListTopics
    <3> DEFINE topics == [t \in DOMAIN past[Now].topics |->
                            [type |-> past[Now].topics[t].type]]
    <3>1. /\ pc = "topics" /\ pc' = "counts"
          /\ part' = [part EXCEPT !.topics = topics]
      BY <2>3 DEF ListTopics, graph
    <3>2. /\ DOMAIN topics = DOMAIN past[Now].topics
          /\ \A t \in DOMAIN topics : /\ topics[t].type = past[Now].topics[t].type
                                      /\ CountFields \cap DOMAIN topics[t] = {}
      BY DEF CountFields
    <3> HIDE DEF topics
    <3> QED  BY <2>2, <3>1, <3>2
  <2>4. CASE MockTopics
    <3>1. PICK topics : topics = past[Now].topics  OBVIOUS
    <3>2. /\ pc = "topics" /\ pc' = "endpoints"
          /\ part' = [part EXCEPT !.topics = topics]
      BY <2>4, <3>1 DEF MockTopics, graph
    <3> QED  BY <2>2, <3>1, <3>2
  <2> QED  BY <2>1, <2>3, <2>4
<1>3. Based'  BY <1>1 DEF TellsInv, Based
<1> QED  BY <1>1, <1>2, <1>3, NothingTold

(* A topic gets the counts of now, or zeros, and keeps its type.           *)
LEMMA CountTells ==
  ASSUME IInv, TellsInv, CountGraph \/ CountTopic
  PROVE  TellsInv'
<1>0. /\ UNCHANGED <<past, base, reply, history, told>>
      /\ pc \in {"counts", "endpoints"} /\ pc' = "endpoints"
  BY DEF CountGraph, CountTopic
<1>1. Now' = Now /\ Now \in 1..Now  BY <1>0 DEF TellsInv, Past, Now
<1>2. PICK i \in 1..Now :
        /\ part = Read(past[i].nodes, part.topics, i)
        /\ Listed(part.topics, i..Now)
        /\ \A t \in DOMAIN part.topics :
             t \in Uncounted \/ ReadsZero(part, t) \/ Had(t, part.topics[t], i..Now)
  BY <1>0 DEF TellsInv, Reading
<1>3. /\ "topics" \in DOMAIN part
      /\ \A topics : /\ [part EXCEPT !.topics = topics] = Read(past[i].nodes, topics, i)
                     /\ [part EXCEPT !.topics = topics].topics = topics
  <2>1. PICK nodes, known : nodes = past[i].nodes /\ known = part.topics  OBVIOUS
  <2>2. part = Read(nodes, known, i)  BY <1>2, <2>1
  <2>3. "topics" \in DOMAIN part  BY <2>2 DEF Read, LiveSnapshot
  <2>4. ASSUME NEW topics, NEW with, with = [part EXCEPT !.topics = topics]
        PROVE  with = Read(nodes, topics, i) /\ with.topics = topics
    BY <2>2, <2>4 DEF Read, LiveSnapshot
  <2> QED  BY <2>1, <2>3, <2>4
<1>4. PICK old : old = part.topics  OBVIOUS
<1>5. PICK new :
        /\ part' = [part EXCEPT !.topics = new] /\ DOMAIN new = DOMAIN old
        /\ \A t \in DOMAIN old :
             \/ new[t] = old[t]
             \/ new[t] = Counted(t, 0, 0)
             \/ t \in DOMAIN past[Now].topics /\ new[t] = CountedNow(t)
  <2>1. CASE CountGraph
    <3> DEFINE shown(t) == /\ t \in DOMAIN past[Now].topics
                           /\ \E f \in CountFields : past[Now].topics[t][f] # 0
               after(t) == IF shown(t) THEN CountedNow(t) ELSE old[t]
    <3>1. \/ part' = part
          \/ part' = [part EXCEPT !.topics = [t \in DOMAIN old |-> after(t)]]
      BY <1>4, <2>1 DEF CountGraph, graph
    <3>2. CASE part' = part
      <4>1. part' = [part EXCEPT !.topics = old]
        BY <1>2, <1>3, <1>4, <3>2
      <4> QED  BY <4>1
    <3>3. CASE part' = [part EXCEPT !.topics = [t \in DOMAIN old |-> after(t)]]
      <4> DEFINE new == [t \in DOMAIN old |-> after(t)]
      <4>1. DOMAIN new = DOMAIN old /\ \A t \in DOMAIN old : new[t] = after(t)
        OBVIOUS
      <4>2. \A t : \/ after(t) = old[t]
                   \/ t \in DOMAIN past[Now].topics /\ after(t) = CountedNow(t)
        <5>1. \A t : shown(t) => t \in DOMAIN past[Now].topics  OBVIOUS
        <5> HIDE DEF shown
        <5> QED  BY <5>1
      <4>3. part' = [part EXCEPT !.topics = new]  BY <3>3
      <4> HIDE DEF new, after
      <4> QED  BY <4>1, <4>2, <4>3
    <3> QED  BY <3>1, <3>2, <3>3
  <2>2. CASE CountTopic
    <3>1. PICK t \in Uncounted :
            \/ part' = [part EXCEPT !.topics[t] = Counted(t, 0, 0)]
            \/ /\ t \in DOMAIN past[Now].topics
               /\ part' = [part EXCEPT !.topics[t] = CountedNow(t)]
      BY <2>2 DEF CountTopic, graph
    <3>2. PICK c : /\ part' = [part EXCEPT !.topics = [old EXCEPT ![t] = c]]
                   /\ \/ c = Counted(t, 0, 0)
                      \/ t \in DOMAIN past[Now].topics /\ c = CountedNow(t)
      BY <1>4, <3>1
    <3>3. PICK new : new = [old EXCEPT ![t] = c]  OBVIOUS
    <3>4. /\ DOMAIN new = DOMAIN old
          /\ \A u \in DOMAIN old : new[u] = IF u = t THEN c ELSE old[u]
      BY <3>3
    <3> QED  BY <3>2, <3>3, <3>4
  <2> QED  BY <2>1, <2>2
<1>6. part' = Read(past[i].nodes, new, i) /\ part'.topics = new  BY <1>3, <1>5
<1>7. \A t, p, q : /\ Counted(t, p, q).type = old[t].type
                  /\ Counted(t, p, q)["publishers"] = p
                  /\ Counted(t, p, q)["subscribers"] = q
  BY <1>4 DEF Counted
<1>8. Listed(part.topics, i..Now)'
  <2>1. \A t \in DOMAIN old : new[t].type = old[t].type
    BY <1>5, <1>7 DEF CountedNow
  <2> QED  BY <1>0, <1>1, <1>2, <1>4, <1>5, <1>6, <2>1 DEF Listed
<1>9. ASSUME NEW t \in DOMAIN new
      PROVE  t \in Uncounted' \/ ReadsZero(part', t) \/ Had(t, part.topics[t], i..Now)'
  <2>1. CASE new[t] = old[t]
    <3>1. CASE t \in Uncounted  BY <1>4, <1>6, <2>1, <3>1 DEF Uncounted
    <3>2. CASE ReadsZero(part, t)  BY <1>4, <1>6, <2>1, <3>2 DEF ReadsZero
    <3>3. CASE Had(t, part.topics[t], i..Now)
      BY <1>0, <1>1, <1>4, <1>6, <2>1, <3>3 DEF Had
    <3> QED  BY <1>2, <1>4, <1>5, <3>1, <3>2, <3>3
  <2>2. CASE new[t] = Counted(t, 0, 0)
    BY <1>6, <1>7, <2>2 DEF ReadsZero, CountFields
  <2>3. CASE t \in DOMAIN past[Now].topics /\ new[t] = CountedNow(t)
    <3>1. \A f \in CountFields : new[t][f] = past[Now].topics[t][f]
      BY <1>7, <2>3 DEF CountedNow, CountFields, graph
    <3>2. \A f \in CountFields : part'.topics[t][f] = past'[Now].topics[t][f]
      BY <1>0, <1>6, <3>1
    <3>3. Now \in i..Now' /\ t \in DOMAIN past'[Now].topics  BY <1>0, <1>1, <2>3
    <3> QED  BY <3>2, <3>3 DEF Had
  <2> QED  BY <1>5, <2>1, <2>2, <2>3
<1>10. Reading'
  <2>1. i \in 1..Now' /\ past' = past  BY <1>0, <1>1
  <2> QED  BY <1>0, <1>6, <1>8, <1>9, <2>1 DEF Reading
<1>11. Based'  BY <1>0 DEF TellsInv, Based
<1> QED  BY <1>0, <1>10, <1>11, NothingTold

LEMMA EndpointsTells == ASSUME TellsInv, ListEndpoints PROVE TellsInv'
<1>1. /\ UNCHANGED <<past, base, reply, history, told>>
      /\ Now' = Now /\ Now \in 1..Now /\ pc = "endpoints" /\ pc' = "taken"
  BY DEF ListEndpoints, TellsInv, Past, Now
<1>2. PICK i \in 1..Now :
        /\ part = Read(past[i].nodes, part.topics, i)
        /\ Listed(part.topics, i..Now)
        /\ \A t \in DOMAIN part.topics :
             t \in Uncounted \/ ReadsZero(part, t) \/ Had(t, part.topics[t], i..Now)
  BY <1>1 DEF TellsInv, Reading
<1>3. PICK nodes, topics : nodes = past[i].nodes /\ topics = part.topics  OBVIOUS
<1>4. PICK n : n = Now  OBVIOUS
<1>5. part = [id |-> 0, source |-> "live", nodes |-> nodes,
              topics |-> topics, qos |-> <<>>, qosKind |-> "none",
              truncated |-> FALSE, real |-> FALSE, taken |-> <<i, i>>]
  BY <1>2, <1>3 DEF Read, LiveSnapshot
<1>6. part' = [part EXCEPT !.taken[2] = n]
      \/ part' = [part EXCEPT !.qos = Profiles(graph.listed), !.qosKind = "writer_qos",
                              !.truncated = graph.listed # graph.writers,
                              !.taken[2] = n]
  BY <1>4 DEF ListEndpoints
<1>7. /\ part'.nodes = nodes /\ part'.topics = topics
      /\ part'.taken[1] = i /\ part'.taken[2] = n
      /\ DOMAIN part' = SnapshotFields
  <2>1. DOMAIN part' = DOMAIN part  BY <1>6
  <2>2. DOMAIN part = SnapshotFields  BY <1>5 DEF SnapshotFields
  <2>3. part'.nodes = part.nodes /\ part'.topics = part.topics
    BY <1>5, <1>6
  <2>4. part'.taken = [part.taken EXCEPT ![2] = n]  BY <1>5, <1>6
  <2>5. part.taken = <<i, i>>  BY <1>5
  <2>6. part'.taken[1] = i /\ part'.taken[2] = n  BY <2>4, <2>5
  <2> QED  BY <1>5, <2>1, <2>2, <2>3, <2>6
<1>8. Heard(part', past[n])
  <2>1. CASE part' = [part EXCEPT !.taken[2] = n]
    BY <1>5, <2>1 DEF Heard
  <2>2. CASE part' = [part EXCEPT !.qos = Profiles(graph.listed), !.qosKind = "writer_qos",
                                  !.truncated = graph.listed # graph.writers,
                                  !.taken[2] = n]
    <3>1. /\ part'.qos = Profiles(past[n].listed)
          /\ part'.truncated = (past[n].listed # past[n].writers)
      BY <1>4, <1>5, <2>2, Zenon DEF graph
    <3> QED  BY <3>1 DEF Heard
  <2> QED  BY <1>6, <2>1, <2>2
<1>9. Witnessed(part)'
  <2>1. /\ i \in 1..n /\ n \in i..n /\ n \in 1..n /\ Now' = n /\ past' = past
    BY <1>1, <1>4
  <2>2. \E k \in i..n : part'.nodes = past[k].nodes  BY <1>3, <1>7, <2>1
  <2>3. Listed(part.topics, part.taken[1]..part.taken[2])'
    <3>1. Listed(topics, i..n)  BY <1>2, <1>3, <1>4
    <3> QED  BY <1>7, <2>1, <3>1 DEF Listed
  <2>4. ASSUME NEW t \in DOMAIN part'.topics
        PROVE  \/ ReadsZero(part', t)
               \/ Had(t, part.topics[t], part.taken[1]..part.taken[2])'
    <3>1. t \notin Uncounted  BY DEF ListEndpoints
    <3>2. ReadsZero(part, t) \/ Had(t, topics[t], i..n)
      BY <1>2, <1>3, <1>4, <1>7, <3>1
    <3>3. CASE ReadsZero(part, t)  BY <1>3, <1>7, <3>3 DEF ReadsZero
    <3>4. CASE Had(t, topics[t], i..n)  BY <1>7, <2>1, <3>4 DEF Had
    <3> QED  BY <3>2, <3>3, <3>4
  <2>5. \E k \in i..n : Heard(part', past[k])  BY <1>8, <2>1
  <2> QED  BY <1>7, <2>1, <2>2, <2>3, <2>4, <2>5 DEF Witnessed
<1>10. Reading'  BY <1>1, <1>7, <1>9 DEF Reading
<1>11. Based'  BY <1>1 DEF TellsInv, Based
<1> QED  BY <1>1, <1>10, <1>11, NothingTold

LEMMA BagTells == ASSUME TellsInv, TakeBag PROVE TellsInv'
<1>1. UNCHANGED <<past, history, told>> /\ (reply' = reply \/ reply'.status # "diff")
  BY DEF TakeBag, Fails
<1>2. base' = base \/ base' = NoSnapshot  BY DEF TakeBag, Fails
<1>3. Based'  BY <1>1, <1>2 DEF TellsInv, Based
<1>4. CASE pc' = "idle"  BY <1>1, <1>3, <1>4, NothingTold DEF Reading
<1>5. CASE pc' # "idle"
  <2> DEFINE bag == Analysis(want)
             shown == {t \in DOMAIN bag : ~bag[t].internal}
             latched == {t \in shown : bag[t].latched # "unknown"}
             topics == [t \in shown |-> [type |-> bag[t].type, rate |-> bag[t].rate]]
             qos == [t \in latched |-> {bag[t].latched}]
             qosKind == IF latched = {} THEN "none" ELSE "latched"
  <2>1. part' = BagSnapshot(0, bag) /\ pc' = "taken"  BY <1>5 DEF TakeBag, Fails
  <2>2. part' = [id |-> 0, source |-> "bag", nodes |-> {}, topics |-> topics,
                 qos |-> qos, qosKind |-> qosKind, truncated |-> FALSE,
                 real |-> mode # "mock", taken |-> <<Now, Now>>]
    BY <2>1, Zenon DEF BagSnapshot
  <2> HIDE DEF topics, qos, qosKind
  <2>3. DOMAIN part' = SnapshotFields /\ part'.source = "bag"  BY <2>2 DEF SnapshotFields
  <2>4. Witnessed(part)'  BY <2>3 DEF Witnessed, Live
  <2>5. Reading'  BY <2>1, <2>3, <2>4 DEF Reading
  <2> QED  BY <1>1, <1>3, <2>5, NothingTold
<1> QED  BY <1>4, <1>5

LEMMA FailureTells ==
  ASSUME TellsInv, ListFails \/ Refuse
  PROVE  TellsInv'
<1>1. /\ UNCHANGED <<past, history, told>> /\ reply'.status # "diff"
      /\ pc' = "idle" /\ base' = NoSnapshot
  BY DEF ListFails, Refuse, Fails
<1>2. Reading' /\ Based'  BY <1>1 DEF Reading, Based
<1> QED  BY <1>1, <1>2, NothingTold

(* What the client knew of the baseline is its picture, so what it makes   *)
(* of the report is the picture of the new snapshot.                       *)
LEMMA AnswerTells == ASSUME IInv, TellsInv, Answer PROVE TellsInv'
<1>1. PICK cur : cur = Stored(part)  OBVIOUS
<1>2. PICK known : known = IF base.id \in DOMAIN told THEN told[base.id] ELSE Picture(base)
  OBVIOUS
<1>3. PICK made : made = IF base = NoSnapshot THEN Picture(cur)
                         ELSE Applied(known, DiffSnapshots(base, cur), cur)
  OBVIOUS
<1>4. /\ pc = "taken" /\ pc' = "idle" /\ base' = NoSnapshot /\ past' = past
      /\ history' = Append(history, cur)
  BY <1>1 DEF Answer
<1>5. told' = Append(told, made)
  <2>1. CASE base = NoSnapshot  BY <1>1, <1>3, <2>1 DEF Answer
  <2>2. CASE base # NoSnapshot  BY <1>1, <1>2, <1>3, <2>2 DEF Answer
  <2> QED  BY <2>1, <2>2
<1>6. DOMAIN part = SnapshotFields /\ Witnessed(part)
  BY <1>4 DEF TellsInv, Reading
<1>7. /\ cur.source = part.source /\ cur.nodes = part.nodes /\ cur.topics = part.topics
      /\ cur.qos = part.qos /\ cur.qosKind = part.qosKind
      /\ cur.truncated = part.truncated /\ cur.taken = part.taken
  BY <1>1, <1>6 DEF Stored, SnapshotFields
<1>8. Witnessed(cur)
  <2>1. \A t : ReadsZero(part, t) => ReadsZero(cur, t)  BY <1>7 DEF ReadsZero
  <2> QED  BY <1>6, <1>7, <2>1 DEF Witnessed, Live, Heard
<1>9. Witnessed(cur)'  BY <1>4, <1>8, StillWitnessed DEF TellsInv
<1>10. PICK n \in Nat : n = Len(history)
  <2>1. PICK S : history \in Seq(S)  BY DEF IInv, Shape
  <2> QED  BY <2>1
<1>11. /\ Len(history') = n + 1 /\ history'[n + 1] = cur
       /\ \A k \in 1..n : history'[k] = history[k]
  <2>1. PICK S : history \in Seq(S)  BY DEF IInv, Shape
  <2> DEFINE T == S \cup {cur}
  <2>2. cur \in T  OBVIOUS
  <2>3. history \in Seq(T)  BY <2>1, SeqMonotonic
  <2> HIDE DEF T
  <2> QED  BY <1>4, <1>10, <2>2, <2>3, AppendProperties
<1>12. DOMAIN told = 1..n /\ \A k \in 1..n : told[k] = Picture(history[k])
  BY <1>10 DEF TellsInv, Told
<1>13. made = Picture(cur)
  <2>1. CASE base = NoSnapshot  BY <1>3, <2>1
  <2>2. CASE base # NoSnapshot
    <3>1. known = Picture(base)
      <4>1. CASE base.id \in 1..n
        <5>1. base = history[base.id]  BY <1>10, <2>2, <4>1 DEF TellsInv, Based
        <5> QED  BY <1>2, <1>12, <4>1, <5>1
      <4>2. CASE base.id \notin 1..n  BY <1>2, <1>12, <4>2
      <4> QED  BY <4>1, <4>2
    <3> QED  BY <1>3, <2>2, <3>1, Composes
  <2> QED  BY <2>1, <2>2
<1>14. Told'
  <2> DEFINE T == {Picture(history[k]) : k \in 1..n} \cup {made}
             pictures == [k \in 1..(n + 1) |-> Picture(history'[k])]
  <2>1. made \in T /\ \A k \in 1..n : told[k] \in T  BY <1>12
  <2>2. told \in Seq(T) /\ Len(told) = n
    <3>1. told = [k \in 1..n |-> Picture(history[k])]  BY <1>10 DEF TellsInv, Told
    <3>2. told \in [1..n -> T]  BY <3>1
    <3> HIDE DEF T
    <3>3. told \in Seq(T)  BY <3>2, SeqDef
    <3> QED  BY <1>12, <3>3, LenProperties
  <2>3. \A k \in 1..(n + 1) : Picture(history'[k]) \in T
    <3>1. \A k \in 1..n : Picture(history'[k]) \in T  BY <1>11
    <3>2. Picture(history'[n + 1]) \in T  BY <1>11, <1>13
    <3> QED  BY <3>1, <3>2
  <2> HIDE DEF T
  <2>4. /\ told' \in Seq(T) /\ Len(told') = n + 1 /\ told'[n + 1] = made
        /\ \A k \in 1..n : told'[k] = told[k]
    BY <1>5, <2>1, <2>2, AppendProperties
  <2>5. /\ pictures \in Seq(T) /\ DOMAIN pictures = 1..(n + 1)
        /\ \A k \in 1..(n + 1) : pictures[k] = Picture(history'[k])
    BY <2>3, SeqDef
  <2> HIDE DEF pictures
  <2>6. Len(pictures) = n + 1  BY <2>5, LenProperties
  <2>7. \A k \in 1..(n + 1) : told'[k] = pictures[k]
    BY <1>11, <1>12, <1>13, <2>4, <2>5
  <2>8. told' = pictures  BY <2>4, <2>5, <2>6, <2>7, SeqEqual
  <2> QED  BY <1>11, <2>8 DEF Told, pictures
<1>15. Stands'
  <2>1. ASSUME NEW k \in 1..n PROVE Witnessed(history[k])'
    <3>1. PICK s : s = history[k]  OBVIOUS
    <3>2. Witnessed(s)  BY <1>10, <3>1 DEF TellsInv, Stands
    <3>3. Witnessed(s)'  BY <1>4, <3>2, StillWitnessed DEF TellsInv
    <3>4. history'[k] = s  BY <1>11, <3>1
    <3> QED  BY <3>3, <3>4 DEF Witnessed
  <2>2. Witnessed(history[n + 1])'  BY <1>9, <1>11 DEF Witnessed
  <2> QED  BY <1>11, <2>1, <2>2 DEF Stands
<1>16. Replied'
  <2>1. CASE base = NoSnapshot  BY <2>1 DEF Answer, Replied
  <2>2. CASE base # NoSnapshot
    <3>1. PICK a : a = base  OBVIOUS
    <3>2. /\ reply'.base = a /\ reply'.current = cur
          /\ reply'.result = DiffSnapshots(a, cur)
      BY <1>1, <2>2, <3>1 DEF Answer
    <3>3. ASSUME a.id # 0 PROVE Witnessed(a)'
      <4>1. CASE a.id \in 1..n
        <5>1. a = history[a.id]  BY <1>10, <2>2, <3>1, <4>1 DEF TellsInv, Based
        <5>2. Witnessed(a)  BY <1>10, <4>1, <5>1 DEF TellsInv, Stands
        <5> QED  BY <1>4, <5>2, StillWitnessed DEF TellsInv
      <4>2. CASE a.id \notin 1..n
        <5>1. ~Live(a)  BY <1>10, <2>2, <3>1, <3>3, <4>2 DEF TellsInv, Based
        <5> QED  BY <5>1 DEF Witnessed, Live
      <4> QED  BY <4>1, <4>2
    <3>4. Witnessed(a)' => Witnessed(reply.base)'  BY <3>2 DEF Witnessed
    <3>5. Witnessed(reply.current)'  BY <1>9, <3>2 DEF Witnessed
    <3> QED  BY <3>2, <3>3, <3>4, <3>5 DEF Replied
  <2> QED  BY <2>1, <2>2
<1>17. Past'  BY <1>4, PastGrows DEF TellsInv
<1>18. Reading' /\ Based'  BY <1>4 DEF Reading, Based
<1> QED  BY <1>14, <1>15, <1>16, <1>17, <1>18 DEF TellsInv

LEMMA StepTells == IInv /\ TellsInv /\ [Next]_vars => TellsInv'
<1> SUFFICES ASSUME IInv, TellsInv, [Next]_vars PROVE TellsInv'  OBVIOUS
<1>1. ASSUME NEW bagPath, Begin("previous", NoPath, bagPath) PROVE TellsInv'
  BY <1>1, BeginTells
<1>2. ASSUME NEW id, NEW bagPath, Begin("id", id, bagPath) PROVE TellsInv'
  BY <1>2, BeginTells
<1>3. ASSUME NEW path \in Paths, NEW bagPath, Begin("bag", path, bagPath) PROVE TellsInv'
  BY <1>3, BeginTells
<1>4. CASE UNCHANGED vars
  <2>1. UNCHANGED <<past, pc, base, part, reply, history, told>>  BY <1>4 DEF vars
  <2>2. Reading' /\ Based'
    BY <2>1 DEF TellsInv, Reading, Based, Read, LiveSnapshot, Witnessed, Heard, Listed,
                Had, Uncounted, Now
  <2> QED  BY <2>1, <2>2, NothingTold
<1> QED
  BY <1>1, <1>2, <1>3, <1>4, ChangesTells, ReadTells, CountTells, EndpointsTells, BagTells,
     FailureTells, AnswerTells DEF Next, Diff

(* What is reported as changed between two live snapshots changed between  *)
(* graphs that the robot had while each was read.                          *)
LEMMA Real == TellsInv => ChangesAreReal
<1> SUFFICES ASSUME TellsInv, reply.status = "diff", Live(reply.base), Live(reply.current),
                    reply.base.id # 0
             PROVE  ChangesAreReal
  BY DEF ChangesAreReal
<1>1. PICK a, b, d : a = reply.base /\ b = reply.current /\ d = reply.result  OBVIOUS
<1> DEFINE readA == {past[i] : i \in a.taken[1]..a.taken[2]}
           readB == {past[i] : i \in b.taken[1]..b.taken[2]}
<1>2. /\ Live(a) /\ Live(b) /\ Witnessed(a) /\ Witnessed(b)
      /\ d = DiffSnapshots(a, b)
  <2>1. Witnessed(reply.base) /\ Witnessed(reply.current)
        /\ reply.result = DiffSnapshots(reply.base, reply.current)
    BY DEF TellsInv, Replied
  <2> QED  BY <1>1, <2>1
<1>3. /\ \E g \in readA : a.nodes = g.nodes
      /\ \E g \in readA : /\ DOMAIN a.topics = DOMAIN g.topics
                         /\ \A t \in DOMAIN a.topics : a.topics[t].type = g.topics[t].type
      /\ \A t \in DOMAIN a.topics :
           \/ ReadsZero(a, t)
           \/ \E g \in readA : /\ t \in DOMAIN g.topics
                              /\ \A f \in CountFields : a.topics[t][f] = g.topics[t][f]
      /\ \E g \in readA : Heard(a, g)
  BY <1>2 DEF Witnessed, Listed, Had
<1>4. /\ \E g \in readB : b.nodes = g.nodes
      /\ \E g \in readB : /\ DOMAIN b.topics = DOMAIN g.topics
                         /\ \A t \in DOMAIN b.topics : b.topics[t].type = g.topics[t].type
      /\ \A t \in DOMAIN b.topics :
           \/ ReadsZero(b, t)
           \/ \E g \in readB : /\ t \in DOMAIN g.topics
                              /\ \A f \in CountFields : b.topics[t][f] = g.topics[t][f]
      /\ \E g \in readB : Heard(b, g)
  BY <1>2 DEF Witnessed, Listed, Had
<1>5. /\ d.nodes = DiffNodes(a, b) /\ d.topics = DiffTopics(a, b)
      /\ d.types = DiffTypes(a, b) /\ d.counts = DiffCounts(a, b)
      /\ d.qos = DiffQos(a, b)
      /\ d.builtin = Cardinality({m \in CountsMoved(a, b) : m.name \in Builtin})
  BY <1>2 DEF DiffSnapshots
<1> HIDE DEF readA, readB
<1>6. \A c \in d.nodes : \E g \in readA, h \in readB :
        /\ c.name \in g.nodes <=> c.change = "removed"
        /\ c.name \in h.nodes <=> c.change = "added"
  <2>1. PICK g \in readA : a.nodes = g.nodes  BY <1>3
  <2>2. PICK h \in readB : b.nodes = h.nodes  BY <1>4
  <2>3. ASSUME NEW c \in d.nodes
        PROVE  /\ c.name \in g.nodes <=> c.change = "removed"
               /\ c.name \in h.nodes <=> c.change = "added"
    BY <1>2, <1>5, <2>1, <2>2, NodeChanges
  <2> QED  BY <2>3
<1>7. PICK g \in readA :
        /\ DOMAIN a.topics = DOMAIN g.topics
        /\ \A t \in DOMAIN a.topics : a.topics[t].type = g.topics[t].type
  BY <1>3
<1>8. PICK h \in readB :
        /\ DOMAIN b.topics = DOMAIN h.topics
        /\ \A t \in DOMAIN b.topics : b.topics[t].type = h.topics[t].type
  BY <1>4
<1>9. \A c \in d.topics :
        /\ c.name \in DOMAIN g.topics <=> c.change = "removed"
        /\ c.name \in DOMAIN h.topics <=> c.change = "added"
  BY <1>5, <1>7, <1>8, TopicChanges
<1>10. \A c \in d.types :
        /\ c.name \in DOMAIN g.topics \cap DOMAIN h.topics
        /\ g.topics[c.name].type # h.topics[c.name].type
  BY <1>5, <1>7, <1>8, TypeChanges DEF Common
<1> DEFINE countMoved(t, f) ==
             \/ ReadsZero(a, t) \/ ReadsZero(b, t)
             \/ \E k \in readA, m \in readB :
                  /\ t \in DOMAIN k.topics \cap DOMAIN m.topics
                  /\ k.topics[t][f] # m.topics[t][f]
<1>11. ASSUME NEW t \in Common(a, b), NEW f \in CountFields, a.topics[t][f] # b.topics[t][f]
       PROVE  countMoved(t, f)
  <2>1. t \in DOMAIN a.topics /\ t \in DOMAIN b.topics  BY DEF Common
  <2> SUFFICES ASSUME ~ReadsZero(a, t), ~ReadsZero(b, t) PROVE countMoved(t, f)  OBVIOUS
  <2>2. PICK k \in readA : t \in DOMAIN k.topics /\ a.topics[t][f] = k.topics[t][f]
    BY <1>3, <2>1
  <2>3. PICK m \in readB : t \in DOMAIN m.topics /\ b.topics[t][f] = m.topics[t][f]
    BY <1>4, <2>1
  <2> QED  BY <1>11, <2>2, <2>3
<1>12. d.builtin > 0 => \E t \in Builtin, f \in CountFields : countMoved(t, f)
  <2> SUFFICES ASSUME ~\E t \in Builtin, f \in CountFields : countMoved(t, f) PROVE d.builtin = 0
    OBVIOUS
  <2> HIDE DEF countMoved
  <2>1. \A m \in CountsMoved(a, b) :
          /\ m.name \in Common(a, b) /\ m.field \in CountFields
          /\ a.topics[m.name][m.field] # b.topics[m.name][m.field]
    BY <1>2 DEF CountsMoved
  <2>2. {m \in CountsMoved(a, b) : m.name \in Builtin} = {}  BY <1>11, <2>1
  <2> QED  BY <1>5, <2>2, FS_EmptySet
<1>13. ASSUME ~a.truncated, ~b.truncated, NEW c \in d.qos
       PROVE  \E f \in readA, k \in readB :
                {w \in f.writers : w.topic = c.name} # {w \in k.writers : w.topic = c.name}
  <2>1. PICK f \in readA : Heard(a, f)  BY <1>3
  <2>2. PICK k \in readB : Heard(b, k)  BY <1>4
  <2>3. QosCompared(a, b)  BY <1>5, <1>13 DEF DiffQos
  <2>4. /\ a.qos = Profiles(f.writers) /\ b.qos = Profiles(k.writers)
    <3>1. a.qosKind # "none" /\ b.qosKind # "none"  BY <2>3 DEF QosCompared
    <3> QED  BY <1>13, <2>1, <2>2, <3>1 DEF Heard
  <2>5. c.name \in DOMAIN a.qos /\ c.name \in DOMAIN b.qos /\ a.qos[c.name] # b.qos[c.name]
    <3> DEFINE moved(t) == [name |-> t, before |-> a.qos[t], after |-> b.qos[t]]
    <3>1. \A x : x \in DiffQos(a, b) =>
             \E t \in Common(a, b) \cap DOMAIN a.qos \cap DOMAIN b.qos :
                a.qos[t] # b.qos[t] /\ x = moved(t)
      BY <2>3 DEF DiffQos
    <3>2. \A t : moved(t).name = t  OBVIOUS
    <3> HIDE DEF moved
    <3> QED  BY <1>5, <1>13, <3>1, <3>2
  <2> DEFINE of(writers, t) == {w \in writers : w.topic = t}
  <2>6. /\ a.qos[c.name] = {w.qos : w \in of(f.writers, c.name)}
        /\ b.qos[c.name] = {w.qos : w \in of(k.writers, c.name)}
    BY <2>4, <2>5 DEF Profiles
  <2>7. of(f.writers, c.name) # of(k.writers, c.name)  BY <2>5, <2>6
  <2> QED  BY <2>7
<1>14. \A c \in d.topics : \E f \in readA, k \in readB :
        /\ c.name \in DOMAIN f.topics <=> c.change = "removed"
        /\ c.name \in DOMAIN k.topics <=> c.change = "added"
  BY <1>9
<1>15. \A c \in d.types : \E f \in readA, k \in readB :
        /\ c.name \in DOMAIN f.topics \cap DOMAIN k.topics
        /\ f.topics[c.name].type # k.topics[c.name].type
  BY <1>10
<1>16. \A c \in d.counts : countMoved(c.name, c.field)
  <2> HIDE DEF countMoved
  <2> QED  BY <1>2, <1>5, <1>11, CountChanges
<1>18. ~a.truncated /\ ~b.truncated => \A c \in d.qos : \E f \in readA, k \in readB :
         {w \in f.writers : w.topic = c.name} # {w \in k.writers : w.topic = c.name}
  BY <1>13
<1> QED
  BY <1>1, <1>6, <1>12, <1>14, <1>15, <1>16, <1>18, SMTT(30)
  DEF ChangesAreReal, readA, readB

(* Whatever changes while it is read, whatever baselines a client chooses  *)
(* and whatever is dropped from the ring: the reports of graph_diff        *)
(* compose to the snapshots they end at, and what they say changed did     *)
(* change, but for the QoS of a listing that says it was cut and for       *)
(* counts of a topic that read zero on one of the two sides, since nothing *)
(* is kept of a count that could not be read (diff_snapshots,              *)
(* build_live_snapshot, list_topics of the live adapter).                  *)
THEOREM ReportsAreTrue == Spec => []ReportsHold
<1>1. TellsInv => ReportsHold
  <2>1. TellsInv => ReportsCompose  BY DEF TellsInv, Told, ReportsCompose
  <2> QED  BY <2>1, Real DEF ReportsHold
<1>2. Init => IInv /\ TellsInv  BY Initially, TellsInit
<1>3. (IInv /\ TellsInv) /\ [Next]_vars => (IInv /\ TellsInv)'  BY StepKeeps, StepTells
<1> QED  BY <1>1, <1>2, <1>3, PTL DEF Spec

-----------------------------------------------------------------------------
(* The calls of inspect_tf and sample_messages end in time.                *)

LEMMA Durations ==
  /\ Stop = 4 /\ Grace = 2 /\ StopReserve = 6 /\ StaticMinWait = 12 /\ JoinSlack = 6
  /\ GraphQuery = 16 /\ NoPublisherWait = 4 /\ MinStream = 1 /\ UrdfRead = 12
  /\ UrdfReserve = 6 /\ UrdfMinRead = 4 /\ CliTimeout = 16 /\ LookupWait = 6
  /\ DecodeReserve = 1 /\ ParamReserve = 4
BY DEF Sec, Stop, Grace, StopReserve, StaticMinWait, JoinSlack, GraphQuery, NoPublisherWait,
       MinStream, UrdfRead, UrdfReserve, UrdfMinRead, CliTimeout, LookupWait, DecodeReserve,
       ParamReserve

LEMMA SmallerTime ==
  ASSUME NEW a \in Int, NEW b \in Int
  PROVE  MinOf({a, b}) = IF a <= b THEN a ELSE b
<1>1. \E x \in {a, b} : \A y \in {a, b} : x <= y  OBVIOUS
<1>2. MinOf({a, b}) \in {a, b} /\ \A y \in {a, b} : MinOf({a, b}) <= y  BY <1>1 DEF MinOf
<1> QED  BY <1>2

LEMMA LargerTime ==
  ASSUME NEW a \in Int, NEW b \in Int
  PROVE  MaxOf({a, b}) = IF a >= b THEN a ELSE b
<1>1. \E x \in {a, b} : \A y \in {a, b} : x >= y  OBVIOUS
<1>2. MaxOf({a, b}) \in {a, b} /\ \A y \in {a, b} : MaxOf({a, b}) >= y  BY <1>1 DEF MaxOf
<1> QED  BY <1>2

(* What is asked, and of which bus, is one of the calls.                   *)
Asked == IsAsk(ask) /\ IsBus(bus)

LEMMA Clamped ==
  ASSUME Asked, now \in Nat, NEW wait \in Int, NEW reserve \in Int
  PROVE  /\ Clamp(wait, reserve) \in Int
         /\ Clamp(wait, reserve) <= wait
         /\ now + Clamp(wait, reserve) <= ask.budget - reserve
<1>1. ask.budget \in Nat  BY DEF Asked, IsAsk
<1>2. /\ Remaining \in Int /\ Remaining - reserve \in Int
      /\ now + Remaining = ask.budget  BY <1>1 DEF Remaining
<1>3. Clamp(wait, reserve) =
        IF wait <= Remaining - reserve THEN wait ELSE Remaining - reserve
  BY <1>2, SmallerTime DEF Clamp
<1> QED  BY <1>1, <1>2, <1>3

LEMMA AtLeastIs ==
  ASSUME NEW low \in Int, NEW x \in Int
  PROVE  AtLeast(low, x) = IF low >= x THEN low ELSE x
BY LargerTime DEF AtLeast

(* A command that answers does so within its wait, one that is stopped is  *)
(* gone Stop later.                                                        *)
LEMMA CommandEnds ==
  ASSUME Asked, NEW wait \in Int
  PROVE  /\ \A d \in Answered(wait) : d \in Nat /\ d <= wait
         /\ \A d \in Stopped(wait) : d \in Int /\ wait <= d /\ d <= wait + Stop
BY Durations DEF Asked, IsBus, Answered, Stopped

(* An echo has read the first documents of its topic.                      *)
LEMMA EchoReads ==
  ASSUME Asked, NEW t \in Topics, NEW count \in Nat, NEW wait \in Nat,
         NEW r \in Echo(t, count, wait)
  PROVE  /\ r.took \in Nat /\ r.took <= wait + Stop
         /\ \E n \in 0 .. Len(bus[t].docs) : r.docs = SubSeq(bus[t].docs, 1, n)
<1> DEFINE docs == bus[t].docs
<1>1. docs \in Seq(Range(docs))  BY DEF Asked, IsBus
<1>2. Len(docs) \in Nat  BY <1>1
<1> DEFINE fewer == 0 .. MinOf({count - 1, Len(docs)})
           run(n, e, d) == [docs |-> SubSeq(docs, 1, n), exited |-> e, took |-> d]
<1>3. \A n \in fewer : n \in 0 .. Len(docs)
  <2> DEFINE wanted == count - 1
             all == Len(docs)
  <2>1. wanted \in Int /\ all \in Int  BY <1>2
  <2>2. fewer = 0 .. MinOf({wanted, all})  OBVIOUS
  <2> HIDE DEF wanted, all, fewer
  <2>3. MinOf({wanted, all}) = IF wanted <= all THEN wanted ELSE all
    BY <2>1, SmallerTime
  <2>4. MinOf({wanted, all}) \in Int /\ MinOf({wanted, all}) <= all  BY <2>1, <2>3
  <2>5. \A n \in fewer : n \in 0 .. all  BY <2>1, <2>2, <2>4
  <2> QED  BY <2>5 DEF all
<1>4. \E n \in 0 .. Len(docs), e \in BOOLEAN, d \in Answered(wait) \cup Stopped(wait) :
        r = run(n, e, d)
  <2>1. CASE \E d \in IF count > Len(docs) THEN {} ELSE Answered(wait) : r = run(count, FALSE, d)
    <3>1. count \in 0 .. Len(docs)  BY <1>2, <2>1
    <3> QED  BY <2>1, <3>1
  <2>2. CASE \E n \in fewer, d \in Stopped(wait) : r = run(n, FALSE, d)  BY <1>3, <2>2
  <2>3. CASE \E n \in fewer, d \in Answered(wait) : r = run(n, TRUE, d)  BY <1>3, <2>3
  <2> HIDE DEF fewer, run
  <2>4. \/ \E d \in IF count > Len(docs) THEN {} ELSE Answered(wait) : r = run(count, FALSE, d)
        \/ \E n \in fewer, d \in Stopped(wait) : r = run(n, FALSE, d)
        \/ \E n \in fewer, d \in Answered(wait) : r = run(n, TRUE, d)
    <3> DEFINE some  == {m \in fewer : m = Len(docs) \/ TooSlow(wait)}
               early == IF bus[t].exits THEN fewer ELSE {}
               A == {run(count, FALSE, d) : d \in IF count > Len(docs) THEN {} ELSE Answered(wait)}
               B == {run(n, FALSE, d) : n \in some, d \in Stopped(wait)}
               C == {run(n, TRUE, d) : n \in early, d \in Answered(wait)}
    <3>1. Echo(t, count, wait) = A \cup B \cup C  BY DEF Echo, fewer, run
    <3>2. r \in A \/ r \in B \/ r \in C
      <4> HIDE DEF A, B, C
      <4> QED  BY <3>1
    <3>4. CASE r \in A  BY <3>4
    <3>5. CASE r \in B
      <4>1. \E n \in some : \E d \in Stopped(wait) : r = run(n, FALSE, d)
        <5> HIDE DEF some
        <5> QED  BY <3>5 DEF run
      <4>2. \A n \in some : n \in fewer  OBVIOUS
      <4> HIDE DEF some, A, B, C
      <4> QED  BY <4>1, <4>2
    <3>6. CASE r \in C
      <4>1. \E n \in early : \E d \in Answered(wait) : r = run(n, TRUE, d)
        <5> HIDE DEF early
        <5> QED  BY <3>6 DEF run
      <4>2. \A n \in early : n \in fewer  OBVIOUS
      <4> HIDE DEF early, A, B, C
      <4> QED  BY <4>1, <4>2
    <3> HIDE DEF A, B, C
    <3> QED  BY <3>2, <3>4, <3>5, <3>6
  <2> QED  BY <2>1, <2>2, <2>3, <2>4
<1>5. PICK n \in 0 .. Len(docs), e \in BOOLEAN, d \in Answered(wait) \cup Stopped(wait) :
        r = run(n, e, d)
  BY <1>4
<1>6. d \in Nat /\ d <= wait + Stop  BY CommandEnds, Durations
<1>7. r.took = d /\ r.docs = SubSeq(docs, 1, n)  BY <1>5
<1> QED  BY <1>6, <1>7

-----------------------------------------------------------------------------
(* Where a call is, and how much of its time is left to it.                *)
Capturing ==
  {"static info", "static start", "tf info", "tf listen", "join", "join raising"}
Alone == Capturing \cup {"urdf", "parameter", "dump"}

(* The thread of /tf_static was given a wait that leaves time to stop it.  *)
ThreadInTime ==
  /\ phase \in {"static info", "static start"} => ~worker.on
  /\ worker.on =>
       /\ {worker.ends, worker.started, worker.wait} \subseteq Int
       /\ worker.started + worker.wait <= ask.budget - StopReserve
       /\ worker.ends <= worker.started + worker.wait + Stop
       /\ phase \notin Capturing => worker.ends <= now

(* A sample_messages has what its caller asked for, and leaves time to     *)
(* stop its commands.                                                      *)
SampleInTime ==
  /\ reading.topic \in Topics /\ reading.count \in Nat
  /\ reading.timeout \in Int /\ reading.started \in Nat
  /\ reading.started + reading.timeout <= ask.budget - StopReserve
  /\ IF ask.tool = "inspect_tf" THEN reading.timeout > 0
     ELSE reading.started = 0 /\ reading.timeout <= ask.timeout
  /\ phase = "lookup" => now = reading.started
  /\ phase = "echo" =>
       /\ reading.timeout > 0
       /\ reading.started <= now /\ now <= reading.started + reading.timeout

OverInTime ==
  /\ now <= ask.budget + Stop
  /\ ask.tool # "inspect_tf" => now <= ask.timeout + MinStream + Stop

ReadsInv ==
  /\ Asked /\ now \in Nat /\ info \in Nat
  /\ ThreadInTime
  /\ phase \in Alone => ask.tool = "inspect_tf"
  /\ phase \in Alone \ {"urdf"} => now <= ask.budget
  /\ phase = "urdf" => now <= ask.budget + Grace
  /\ phase \in {"lookup", "echo"} => SampleInTime
  /\ Over => OverInTime

LEMMA ReadsInTime == ReadsInv => EndsInTime
<1> SUFFICES ASSUME ReadsInv PROVE EndsInTime  OBVIOUS
<1>1. Over => OverInTime  BY DEF ReadsInv
<1>2. phase \in {"urdf", "lookup", "echo", "parameter", "dump", "done", "raised"} /\ worker.on
        => worker.ends <= now
  BY DEF ReadsInv, ThreadInTime, Capturing
<1> QED  BY <1>1, <1>2 DEF EndsInTime, OverInTime

LEMMA ReadsInitially == ReadsInit => ReadsInv
<1> SUFFICES ASSUME ReadsInit PROVE ReadsInv  OBVIOUS
<1>1. Asked  BY CallsAssumption DEF ReadsInit, Asked
<1>2. now = 0 /\ info = 0 /\ ask.budget \in Nat /\ ~worker.on
  BY <1>1 DEF ReadsInit, NoThread, Asked, IsAsk
<1>3. CASE ask.tool = "inspect_tf"
  <2>1. phase = "static info"  BY <1>3 DEF ReadsInit
  <2>2. ThreadInTime  BY <1>2 DEF ThreadInTime
  <2>3. ~Over /\ phase \notin {"urdf", "lookup", "echo"}  BY <2>1 DEF Over
  <2>4. now \in Nat /\ info \in Nat /\ now <= ask.budget  BY <1>2
  <2> QED  BY <1>1, <1>3, <2>2, <2>3, <2>4 DEF ReadsInv
<1>4. CASE ask.tool # "inspect_tf"
  <2> DEFINE timeout == Clamp(ask.timeout, StopReserve)
  <2>1. phase = "lookup" /\ reading = Sampling(ask.tool, ask.count, timeout, 0)
    BY <1>4 DEF ReadsInit
  <2>2. ask.tool \in Topics /\ ask.timeout \in Nat /\ ask.count \in Nat
    BY <1>1, <1>4 DEF Asked, IsAsk
  <2>3. timeout \in Int /\ timeout <= ask.timeout /\ now + timeout <= ask.budget - StopReserve
    <3>1. ask.timeout \in Int /\ StopReserve \in Int /\ now \in Nat  BY <1>2, <2>2, Durations
    <3> QED  BY <1>1, <3>1, Clamped
  <2>4. reading.topic = ask.tool /\ reading.count = ask.count /\ reading.timeout = timeout
        /\ reading.started = 0
    BY <2>1 DEF Sampling
  <2> HIDE DEF timeout
  <2>5. SampleInTime  BY <1>2, <1>4, <2>1, <2>2, <2>3, <2>4 DEF SampleInTime
  <2> QED  BY <1>1, <1>2, <2>1, <2>5 DEF ReadsInv, ThreadInTime, Over, Alone, Capturing
<1> QED  BY <1>3, <1>4

(* A step of the capture that only takes time, or none.                    *)
LEMMA StillCapturing ==
  ASSUME ReadsInv, phase \in Capturing, phase' \in {"tf info", "tf listen", "join", "join raising"},
         UNCHANGED <<ask, bus, worker>>, now' \in Nat, now <= now', now' <= ask.budget,
         info' \in Nat
  PROVE  ReadsInv'
<1>1. Asked' /\ ask'.tool = "inspect_tf" /\ now' <= ask'.budget
  BY DEF ReadsInv, Asked, Alone
<1>2. ThreadInTime'
  <2>1. phase' \notin {"static info", "static start"} /\ phase' \in Capturing  BY DEF Capturing
  <2> QED  BY <2>1 DEF ReadsInv, ThreadInTime
<1>3. ~Over' /\ phase' \notin {"urdf", "lookup", "echo"}  BY DEF Over, Capturing
<1> QED  BY <1>1, <1>2, <1>3 DEF ReadsInv

(* ros2 topic info of a topic stops in time, whatever it tells.            *)
LEMMA InfoInTime ==
  ASSUME Asked, now \in Nat, info \in Nat, now <= ask.budget, NEW t \in Topics,
         NEW then, NEW else, InfoOrNote(t, then, else)
  PROVE  /\ now' \in Nat /\ now <= now' /\ now' <= ask.budget
         /\ info' \in Nat /\ phase' \in {then, else}
<1> DEFINE wait == Clamp(GraphQuery, StopReserve)
<1>1. wait \in Int /\ now + wait <= ask.budget - StopReserve /\ ask.budget \in Nat
  <2>1. GraphQuery \in Int /\ StopReserve \in Int  BY Durations
  <2>2. ask.budget \in Nat  BY DEF Asked, IsAsk
  <2> QED  BY <2>1, <2>2, Clamped
<1>2. bus[t].publishers \in Nat  BY DEF Asked, IsBus
<1>3. \/ now' = now /\ info' = info
      \/ /\ wait > 0 /\ info' \in {info, bus[t].publishers}
         /\ \E d \in Answered(wait) \cup Stopped(wait) : now' = now + d
  BY Zenon DEF InfoOrNote, Takes, wait
<1>4. phase' \in {then, else}  BY Zenon DEF InfoOrNote
<1> HIDE DEF wait
<1>5. \A d \in Answered(wait) \cup Stopped(wait) : wait > 0 => d \in Nat /\ d <= wait + 4
  BY <1>1, CommandEnds, Durations
<1>6. now' \in Nat /\ now <= now' /\ now' <= ask.budget
  <2>1. CASE now' = now  BY <2>1
  <2>2. ASSUME wait > 0, NEW d \in Answered(wait) \cup Stopped(wait), now' = now + d
        PROVE  now' \in Nat /\ now <= now' /\ now' <= ask.budget
    <3>1. d \in Nat /\ d <= wait + 4  BY <2>2, <1>5
    <3> QED  BY <1>1, <2>2, <3>1, Durations
  <2> QED  BY <1>3, <2>1, <2>2
<1>7. info' \in Nat  BY <1>2, <1>3
<1> QED  BY <1>4, <1>6, <1>7

LEMMA StaticInfoInTime == ASSUME ReadsInv, StaticInfo PROVE ReadsInv'
<1>1. /\ phase = "static info" /\ InfoOrNote("tf_static", "static start", "tf info")
      /\ UNCHANGED <<ask, bus, worker>>
  BY DEF StaticInfo, Same
<1>2. Asked /\ now \in Nat /\ info \in Nat /\ now <= ask.budget /\ ask.tool = "inspect_tf"
      /\ ~worker.on
  BY <1>1 DEF ReadsInv, ThreadInTime, Alone, Capturing
<1>3. "tf_static" \in Topics  BY DEF Topics
<1>4. /\ now' \in Nat /\ now <= now' /\ now' <= ask.budget
      /\ info' \in Nat /\ phase' \in {"static start", "tf info"}
  BY <1>1, <1>2, <1>3, InfoInTime
<1>5. ThreadInTime'  BY <1>1, <1>2 DEF ThreadInTime
<1>6. ~Over' /\ phase' \notin {"urdf", "lookup", "echo"}  BY <1>4 DEF Over
<1>7. Asked' /\ ask'.tool = "inspect_tf" /\ now' <= ask'.budget  BY <1>1, <1>2, <1>4 DEF Asked
<1> QED  BY <1>4, <1>5, <1>6, <1>7 DEF ReadsInv

LEMMA TfInfoInTime == ASSUME ReadsInv, TfInfo PROVE ReadsInv'
<1>1. /\ phase = "tf info" /\ InfoOrNote("tf", "tf listen", "join")
      /\ UNCHANGED <<ask, bus, worker>>
  BY DEF TfInfo, Same
<1>2. Asked /\ now \in Nat /\ info \in Nat /\ now <= ask.budget /\ phase \in Capturing
  BY <1>1 DEF ReadsInv, Alone, Capturing
<1>3. "tf" \in Topics  BY DEF Topics
<1>4. /\ now' \in Nat /\ now <= now' /\ now' <= ask.budget
      /\ info' \in Nat /\ phase' \in {"tf listen", "join"}
  BY <1>1, <1>2, <1>3, InfoInTime
<1> QED  BY <1>1, <1>2, <1>4, StillCapturing

LEMMA StaticStartInTime == ASSUME ReadsInv, StaticStart PROVE ReadsInv'
<1> DEFINE wait == Clamp(AtLeast(StaticMinWait, ask.window), StopReserve)
           given(r, raised) ==
             [on |-> TRUE, started |-> now, wait |-> wait, expected |-> info,
              ends |-> now + r.took, docs |-> r.docs, raised |-> raised]
<1>1. /\ phase = "static start" /\ phase' = "tf info"
      /\ ask' = ask /\ bus' = bus /\ now' = now /\ info' = info
  BY DEF StaticStart, Same
<1>2. /\ Asked /\ now \in Nat /\ info \in Nat /\ ask.tool = "inspect_tf" /\ now <= ask.budget
      /\ ~worker.on
  BY <1>1 DEF ReadsInv, ThreadInTime, Alone, Capturing
<1>3. \/ worker' = worker
      \/ /\ ~(wait < MinStream)
         /\ \E r \in Echo("tf_static", info, wait), raised \in {FALSE, bus["tf_static"].exits} :
              worker' = given(r, raised)
  BY Zenon DEF StaticStart, wait, given
<1>4. wait \in Int /\ now + wait <= ask.budget - StopReserve
  <2>1. ask.window \in Int /\ StaticMinWait \in Int /\ StopReserve \in Int
    BY <1>2, Durations DEF Asked, IsAsk
  <2>2. AtLeast(StaticMinWait, ask.window) \in Int  BY <2>1, AtLeastIs
  <2> QED  BY <1>2, <2>1, <2>2, Clamped
<1> HIDE DEF wait
<1>5. ThreadInTime'
  <2>1. CASE worker' = worker  BY <1>1, <1>2, <2>1 DEF ThreadInTime
  <2>2. ASSUME ~(wait < MinStream), NEW r \in Echo("tf_static", info, wait),
               NEW raised \in {FALSE, bus["tf_static"].exits}, worker' = given(r, raised)
        PROVE  ThreadInTime'
    <3>1. wait \in Nat /\ "tf_static" \in Topics  BY <1>4, <2>2, Durations DEF Topics
    <3>2. r.took \in Nat /\ r.took <= wait + Stop  BY <1>2, <3>1, EchoReads
    <3>3. worker'.started = now /\ worker'.wait = wait /\ worker'.ends = now + r.took
      BY <2>2
    <3>4. now + r.took \in Int /\ now + r.took <= now + wait + Stop
      BY <1>2, <1>4, <3>2, Durations
    <3>5. /\ {worker'.ends, worker'.started, worker'.wait} \subseteq Int
          /\ worker'.ends <= worker'.started + worker'.wait + Stop
      BY <1>2, <1>4, <3>3, <3>4
    <3>6. worker'.started + worker'.wait <= ask'.budget - StopReserve  BY <1>1, <1>4, <3>3
    <3>7. phase' \in Capturing /\ phase' \notin {"static info", "static start"}
      BY <1>1 DEF Capturing
    <3> QED  BY <3>5, <3>6, <3>7 DEF ThreadInTime
  <2> QED  BY <1>3, <2>1, <2>2
<1>6. ~Over' /\ phase' \notin {"urdf", "lookup", "echo"}  BY <1>1 DEF Over
<1>7. Asked' /\ ask'.tool = "inspect_tf" /\ now' <= ask'.budget  BY <1>1, <1>2 DEF Asked
<1> QED  BY <1>1, <1>2, <1>5, <1>6, <1>7 DEF ReadsInv

LEMMA ListenInTime == ASSUME ReadsInv, Listen PROVE ReadsInv'
<1> DEFINE window == IF info > 0 THEN ask.window ELSE MinOf({ask.window, NoPublisherWait})
           wait   == Clamp(window, StopReserve)
<1>1. /\ phase = "tf listen" /\ phase' = "join" /\ UNCHANGED <<ask, bus, worker>>
      /\ info' = info
  BY DEF Listen, Same
<1>2. Asked /\ now \in Nat /\ info \in Nat /\ ask.tool = "inspect_tf" /\ now <= ask.budget
  BY <1>1 DEF ReadsInv, Alone, Capturing
<1>3. \/ now' = now
      \/ /\ ~(wait < MinStream)
         /\ \E r \in Echo("tf", ask.docs, wait), decode \in Decoding :
              now' = now + (r.took + decode)
  BY Zenon DEF Listen, Takes, wait, window
<1>4. wait \in Int /\ now + wait <= ask.budget - StopReserve
  <2>1. ask.window \in Int /\ NoPublisherWait \in Int /\ StopReserve \in Int
    BY <1>2, Durations DEF Asked, IsAsk
  <2>2. MinOf({ask.window, NoPublisherWait}) \in Int  BY <2>1, SmallerTime
  <2>3. window \in Int  BY <2>1, <2>2
  <2> QED  BY <1>2, <2>1, <2>3, Clamped
<1> HIDE DEF wait
<1>5. now' \in Nat /\ now <= now' /\ now' <= ask.budget
  <2>1. CASE now' = now  BY <1>2, <2>1
  <2>2. ASSUME ~(wait < MinStream), NEW r \in Echo("tf", ask.docs, wait), NEW decode \in Decoding,
               now' = now + (r.took + decode)
        PROVE  now' \in Nat /\ now <= now' /\ now' <= ask.budget
    <3>1. /\ wait \in Nat /\ "tf" \in Topics /\ ask.docs \in Nat /\ ask.budget \in Nat
      BY <1>2, <1>4, <2>2, Durations DEF Topics, Asked, IsAsk
    <3>2. r.took \in Nat /\ r.took <= wait + Stop  BY <1>2, <3>1, EchoReads
    <3>3. decode \in Nat /\ decode <= 2  BY Durations DEF Decoding
    <3> QED  BY <1>2, <1>4, <2>2, <3>1, <3>2, <3>3, Durations
  <2> QED  BY <1>3, <2>1, <2>2
<1> QED  BY <1>1, <1>2, <1>5, StillCapturing DEF Capturing

LEMMA ListenRaisesInTime == ASSUME ReadsInv, ListenRaises PROVE ReadsInv'
<1>1. /\ phase = "tf listen" /\ phase' = "join raising" /\ UNCHANGED <<ask, bus, worker>>
      /\ info' = info /\ now' = now
  BY DEF ListenRaises, Same
<1>2. Asked /\ now \in Nat /\ info \in Nat /\ now <= ask.budget
  BY <1>1 DEF ReadsInv, Alone, Capturing
<1>3. now <= now  BY <1>2
<1> QED  BY <1>1, <1>2, <1>3, StillCapturing DEF Capturing

(* The join waits the thread out: its wait and the time to stop its echo   *)
(* are less than its wait and the slack, and end before the budget.        *)
LEMMA JoinedInTime ==
  ASSUME Asked, ThreadInTime, worker.on, now \in Nat, now <= ask.budget
  PROVE  /\ Joined \in Nat /\ now <= Joined /\ Joined <= ask.budget
         /\ worker.ends <= Joined
<1> DEFINE spare == worker.wait + JoinSlack - (now - worker.started)
<1>1. /\ worker.ends \in Int /\ worker.started \in Int /\ worker.wait \in Int
      /\ worker.started + worker.wait <= ask.budget - StopReserve
      /\ worker.ends <= worker.started + worker.wait + Stop
  BY DEF ThreadInTime
<1>2. ask.budget \in Nat  BY DEF Asked, IsAsk
<1>3. Remaining \in Int /\ now + Remaining = ask.budget /\ Remaining >= 0
  BY <1>2 DEF Remaining
<1>4. spare \in Int /\ now + spare >= worker.ends /\ now + Remaining >= worker.ends
  BY <1>1, <1>2, <1>3, Durations
<1> HIDE DEF spare
<1>5. MinOf({spare, Remaining}) = IF spare <= Remaining THEN spare ELSE Remaining
  BY <1>3, <1>4, SmallerTime
<1>6. /\ MinOf({spare, Remaining}) \in Int /\ MinOf({spare, Remaining}) <= Remaining
      /\ now + MinOf({spare, Remaining}) >= worker.ends
  BY <1>3, <1>4, <1>5
<1>7. JoinWait = IF 0 >= MinOf({spare, Remaining}) THEN 0 ELSE MinOf({spare, Remaining})
  BY <1>6, AtLeastIs DEF JoinWait, spare
<1>8. /\ JoinWait \in Nat /\ JoinWait <= Remaining /\ now + JoinWait >= worker.ends
  BY <1>1, <1>3, <1>6, <1>7
<1>9. now + JoinWait \in Int  BY <1>8
<1>10. MinOf({worker.ends, now + JoinWait}) = worker.ends
  BY <1>1, <1>8, <1>9, SmallerTime
<1>11. Joined = IF now >= worker.ends THEN now ELSE worker.ends
  BY <1>1, <1>10, LargerTime DEF Joined
<1>12. worker.ends <= ask.budget  BY <1>1, <1>2, <1>3, <1>8
<1> QED  BY <1>1, <1>2, <1>11, <1>12

LEMMA FinishStaticInTime == ASSUME ReadsInv, FinishStatic PROVE ReadsInv'
<1>1. /\ phase \in {"join", "join raising"} /\ phase' \in {"raised", "urdf"}
      /\ ask' = ask /\ bus' = bus /\ worker' = worker /\ info' = info
  BY DEF FinishStatic, Same
<1>2. /\ Asked /\ ThreadInTime /\ now \in Nat /\ info \in Nat
      /\ ask.tool = "inspect_tf" /\ now <= ask.budget
  BY <1>1 DEF ReadsInv, Alone, Capturing
<1>3. \/ ~worker.on /\ now' = now
      \/ worker.on /\ now' = Joined
      \/ worker.on /\ \E decode \in Decoding : now' = Joined + decode
  BY Zenon DEF FinishStatic
<1>4. \A decode \in Decoding : decode \in Nat /\ decode <= 2  BY Durations DEF Decoding
<1>5. /\ now' \in Nat /\ now' <= ask.budget + 2
      /\ worker.on => worker.ends <= now'
  <2>1. CASE ~worker.on /\ now' = now
    <3>1. ask.budget \in Nat  BY <1>2 DEF Asked, IsAsk
    <3> QED  BY <1>2, <2>1, <3>1
  <2>2. ASSUME worker.on, NEW d \in {0} \cup Decoding, now' = Joined + d
        PROVE  now' \in Nat /\ now' <= ask.budget + 2 /\ worker.ends <= now'
    <3>1. /\ Joined \in Nat /\ Joined <= ask.budget /\ worker.ends <= Joined
      BY <1>2, <2>2, JoinedInTime
    <3>2. d \in Nat /\ d <= 2  BY <1>4
    <3>3. ask.budget \in Nat  BY <1>2 DEF Asked, IsAsk
    <3>4. worker.ends \in Int  BY <1>2, <2>2 DEF ThreadInTime
    <3> QED  BY <2>2, <3>1, <3>2, <3>3, <3>4
  <2>3. worker.on /\ now' = Joined => now' = Joined + 0
    <3> SUFFICES ASSUME worker.on, now' = Joined PROVE now' = Joined + 0  OBVIOUS
    <3>1. Joined \in Nat  BY <1>2, JoinedInTime
    <3> QED  BY <3>1
  <2>4. 0 \in {0} \cup Decoding  OBVIOUS
  <2> QED  BY <1>3, <2>1, <2>2, <2>3, <2>4
<1>6. ThreadInTime'
  <2>1. phase' \notin {"static info", "static start"}  BY <1>1
  <2> QED  BY <1>1, <1>2, <1>5, <2>1 DEF ThreadInTime
<1>7. phase' \notin {"lookup", "echo"} /\ phase' \notin Alone \ {"urdf"}
  BY <1>1 DEF Alone, Capturing
<1>8. OverInTime'
  <2>1. ask.budget \in Nat  BY <1>2 DEF Asked, IsAsk
  <2>2. now' <= ask'.budget + Stop
    <3>1. now' <= ask.budget + Stop  BY <1>5, <2>1, Durations
    <3> QED  BY <1>1, <3>1
  <2> QED  BY <1>1, <1>2, <2>2 DEF OverInTime
<1>9. now' <= ask'.budget + Grace  BY <1>1, <1>5, Durations
<1>10. Asked'  BY <1>1, <1>2 DEF Asked
<1> QED  BY <1>1, <1>2, <1>5, <1>6, <1>7, <1>8, <1>9, <1>10 DEF ReadsInv

(* A step after the capture leaves the thread alone.                       *)
LEMMA AfterThread ==
  ASSUME ReadsInv, phase \notin Capturing, phase' \notin Capturing,
         UNCHANGED <<ask, bus, worker>>, now' \in Nat, now <= now'
  PROVE  Asked' /\ ThreadInTime'
<1>1. Asked'  BY DEF ReadsInv, Asked
<1>2. phase' \notin {"static info", "static start"}  BY DEF Capturing
<1>3. worker.on => worker.ends <= now'
  <2> SUFFICES ASSUME worker.on PROVE worker.ends <= now'  OBVIOUS
  <2>1. worker.ends \in Int /\ worker.ends <= now  BY DEF ReadsInv, ThreadInTime
  <2>2. now \in Nat  BY DEF ReadsInv
  <2> QED  BY <2>1, <2>2
<1> QED  BY <1>1, <1>2, <1>3 DEF ReadsInv, ThreadInTime

LEMMA ClampIs ==
  ASSUME Asked, now \in Nat, NEW wait \in Int, NEW reserve \in Int
  PROVE  Clamp(wait, reserve) =
           IF wait <= ask.budget - now - reserve THEN wait ELSE ask.budget - now - reserve
<1>1. ask.budget \in Nat  BY DEF Asked, IsAsk
<1>2. Remaining - reserve \in Int /\ Remaining - reserve = ask.budget - now - reserve
  BY <1>1 DEF Remaining
<1> QED  BY <1>2, SmallerTime DEF Clamp

(* A call that is over, or that goes on to the parameter, in time.         *)
LEMMA OverNow ==
  ASSUME ReadsInv, phase \notin Capturing, phase' \in {"done", "raised"},
         UNCHANGED <<ask, bus, worker>>, now' \in Nat, info' \in Nat, now <= now',
         now' <= ask.budget + 4, ask.tool # "inspect_tf" => now' <= ask.timeout + 5
  PROVE  ReadsInv'
<1>1. phase' \notin Capturing /\ phase' \notin Alone /\ phase' \notin {"lookup", "echo"}
  BY DEF Alone, Capturing
<1>2. Asked' /\ ThreadInTime'  BY <1>1, AfterThread
<1>3. now' <= ask.budget + Stop  BY Durations
<1>4. ask.tool # "inspect_tf" => now' <= ask.timeout + MinStream + Stop
  <2> SUFFICES ASSUME ask.tool # "inspect_tf" PROVE now' <= ask.timeout + MinStream + Stop
    OBVIOUS
  <2>1. ask.timeout \in Nat /\ now' <= ask.timeout + 5  BY DEF ReadsInv, Asked, IsAsk
  <2> QED  BY <2>1, Durations
<1>5. OverInTime'  BY <1>3, <1>4 DEF OverInTime
<1>6. phase' # "urdf"  OBVIOUS
<1> QED  BY <1>1, <1>2, <1>5, <1>6 DEF ReadsInv

LEMMA AloneNow ==
  ASSUME ReadsInv, phase \notin Capturing, phase' \in {"parameter", "dump"},
         ask.tool = "inspect_tf", UNCHANGED <<ask, bus, worker>>, now' \in Nat,
         info' \in Nat, now <= now', now' <= ask.budget
  PROVE  ReadsInv'
<1>1. phase' \notin Capturing /\ phase' \notin {"lookup", "echo", "urdf"} /\ ~Over'
  BY DEF Capturing, Over
<1>2. Asked' /\ ThreadInTime'  BY <1>1, AfterThread
<1> QED  BY <1>1, <1>2 DEF ReadsInv

LEMMA ReadUrdfInTime == ASSUME ReadsInv, ReadUrdf PROVE ReadsInv'
<1> DEFINE wait == Clamp(UrdfRead, UrdfReserve)
           timeout == Clamp(wait, StopReserve)
<1>1. /\ phase = "urdf" /\ UNCHANGED <<ask, bus, worker>> /\ now' = now /\ info' = info
      /\ ask' = ask /\ bus' = bus
  BY DEF ReadUrdf, Same
<1>2. /\ Asked /\ now \in Nat /\ info \in Nat /\ ask.tool = "inspect_tf"
      /\ now <= ask.budget + Grace
  BY <1>1 DEF ReadsInv, Alone
<1>3. \/ wait < UrdfMinRead /\ phase' = "done"
      \/ /\ ~(wait < UrdfMinRead) /\ phase' = "lookup"
         /\ reading' = Sampling("robot_description", 1, timeout, now)
  BY Zenon DEF ReadUrdf, Finish, wait, timeout
<1>4. ask.budget \in Nat  BY <1>2 DEF Asked, IsAsk
<1>5. wait = IF 12 <= ask.budget - now - 6 THEN 12 ELSE ask.budget - now - 6
  BY <1>2, ClampIs, Durations
<1>6. wait \in Int /\ wait <= ask.budget - now - 6  BY <1>2, <1>4, <1>5
<1>7. timeout = wait  BY <1>2, <1>6, ClampIs, Durations
<1>8. phase \notin Capturing /\ now <= now' /\ now' <= ask.budget + 4
  <2>1. phase \notin Capturing  BY <1>1 DEF Capturing
  <2>2. now <= now' /\ now' <= ask.budget + 4  BY <1>1, <1>2, <1>4, Durations
  <2> QED  BY <2>1, <2>2
<1> HIDE DEF wait, timeout
<1>9. CASE phase' = "done"
  <2>1. info' \in Nat /\ now' \in Nat  BY <1>1, <1>2
  <2> QED  BY <1>1, <1>2, <1>8, <1>9, <2>1, OverNow
<1>10. CASE /\ ~(wait < UrdfMinRead) /\ phase' = "lookup"
            /\ reading' = Sampling("robot_description", 1, timeout, now)
  <2>1. /\ reading'.topic = "robot_description" /\ reading'.count = 1
        /\ reading'.timeout = timeout /\ reading'.started = now
    BY <1>10 DEF Sampling
  <2>2. timeout \in Int /\ timeout > 0 /\ now + timeout <= ask.budget - StopReserve
    BY <1>2, <1>4, <1>6, <1>7, <1>10, Durations
  <2>3. "robot_description" \in Topics  BY DEF Topics
  <2>4. SampleInTime'  BY <1>1, <1>2, <1>10, <2>1, <2>2, <2>3 DEF SampleInTime
  <2>5. phase' \notin Capturing /\ phase' \notin Alone /\ phase' # "urdf" /\ ~Over'
    BY <1>10 DEF Capturing, Alone, Over
  <2>6. Asked' /\ ThreadInTime'
    <3>1. now' \in Nat  BY <1>1, <1>2
    <3> QED  BY <1>1, <1>8, <2>5, <3>1, AfterThread
  <2> QED  BY <1>1, <1>2, <2>4, <2>5, <2>6 DEF ReadsInv
<1> QED  BY <1>3, <1>9, <1>10

LEMMA LookupInTime == ASSUME ReadsInv, Lookup PROVE ReadsInv'
<1> DEFINE wait == MinOf({CliTimeout, reading.timeout})
<1>1. /\ phase = "lookup" /\ UNCHANGED <<ask, bus, worker>> /\ ask' = ask /\ bus' = bus
      /\ reading' = reading
  BY DEF Lookup, Same
<1>2. Asked /\ now \in Nat /\ info \in Nat /\ SampleInTime  BY <1>1 DEF ReadsInv
<1>3. \/ /\ reading.timeout <= 0 /\ now' = now /\ info' = info
         /\ phase' \in {"raised", "done"} /\ (ask.tool # "inspect_tf" => phase' = "raised")
      \/ /\ reading.timeout > 0 /\ info' = info
         /\ \E d \in Answered(wait) : now' = now + d
         /\ phase' = IF ask.tool # "inspect_tf" THEN "raised" ELSE "parameter"
      \/ /\ reading.timeout > 0 /\ info' = info
         /\ \E d \in Stopped(wait) : now' = now + d
         /\ phase' \in {"raised", "done"}
      \/ /\ reading.timeout > 0 /\ info' = bus[reading.topic].publishers
         /\ \E d \in Answered(wait) : now' = now + d
         /\ phase' \in {"echo", "done"}
  BY DEF Lookup, Takes, SampleRaises, Finish, wait
<1>4. /\ reading.topic \in Topics /\ reading.timeout \in Int
      /\ reading.started \in Nat /\ now = reading.started
      /\ now + reading.timeout <= ask.budget - 6
  BY <1>1, <1>2, Durations DEF SampleInTime
<1>5. bus[reading.topic].publishers \in Nat  BY <1>2, <1>4 DEF Asked, IsBus
<1>6. wait = IF 16 <= reading.timeout THEN 16 ELSE reading.timeout
  BY <1>4, SmallerTime, Durations
<1>7. wait \in Int /\ wait <= reading.timeout /\ (reading.timeout > 0 => wait > 0)
  BY <1>4, <1>6
<1> HIDE DEF wait
<1>8. /\ \A d \in Answered(wait) : d \in Nat /\ d <= reading.timeout
      /\ \A d \in Stopped(wait) : reading.timeout > 0 => d \in Nat /\ d <= reading.timeout + 4
  <2>1. \A d \in Answered(wait) : d \in Nat /\ d <= wait  BY <1>2, <1>7, CommandEnds
  <2>2. \A d \in Stopped(wait) : d \in Int /\ wait <= d /\ d <= wait + 4
    BY <1>2, <1>7, CommandEnds, Durations
  <2>3. \A d \in Answered(wait) : d \in Nat /\ d <= reading.timeout  BY <1>4, <1>7, <2>1
  <2>4. ASSUME reading.timeout > 0, NEW d \in Stopped(wait)
        PROVE  d \in Nat /\ d <= reading.timeout + 4
    BY <1>4, <1>7, <2>2, <2>4
  <2> QED  BY <2>3, <2>4
<1>9. ask.budget \in Nat /\ (ask.tool # "inspect_tf" => ask.timeout \in Nat)
  BY <1>2 DEF Asked, IsAsk
<1>10. phase \notin Capturing  BY <1>1 DEF Capturing
<1>11. ask.tool # "inspect_tf" => now = 0 /\ reading.timeout <= ask.timeout
  BY <1>2, <1>4 DEF SampleInTime
<1>12. ASSUME NEW d \in Nat, now' = now + d, d <= reading.timeout + 4 \/ d = 0,
              phase' \in {"raised", "done"}, info' \in Nat
       PROVE  ReadsInv'
  <2>1. now' \in Nat /\ now <= now'  BY <1>2, <1>12
  <2>2. now' <= ask.budget + 4
    <3>1. CASE d = 0
      <4>1. CASE ask.tool = "inspect_tf"
        <5>1. reading.timeout > 0  BY <1>2, <4>1 DEF SampleInTime
        <5> QED  BY <1>2, <1>4, <1>9, <1>12, <3>1, <5>1
      <4>2. CASE ask.tool # "inspect_tf"
        <5>1. now' = 0  BY <1>2, <1>11, <1>12, <3>1, <4>2
        <5> QED  BY <1>9, <5>1
      <4> QED  BY <4>1, <4>2
    <3>2. CASE d <= reading.timeout + 4  BY <1>2, <1>4, <1>9, <1>12, <3>2
    <3> QED  BY <1>12, <3>1, <3>2
  <2>3. ask.tool # "inspect_tf" => now' <= ask.timeout + 5
    <3> SUFFICES ASSUME ask.tool # "inspect_tf" PROVE now' <= ask.timeout + 5  OBVIOUS
    <3>1. now = 0 /\ reading.timeout <= ask.timeout /\ ask.timeout \in Nat  BY <1>9, <1>11
    <3> QED  BY <1>4, <1>12, <3>1
  <2> QED  BY <1>1, <1>10, <1>12, <2>1, <2>2, <2>3, OverNow
<1>13. CASE reading.timeout <= 0 /\ now' = now /\ info' = info /\ phase' \in {"raised", "done"}
  <2>1. now' = now + 0 /\ info' \in Nat  BY <1>2, <1>13
  <2> QED  BY <1>12, <1>13, <2>1
<1>14. ASSUME reading.timeout > 0, info' = info, NEW d \in Answered(wait), now' = now + d,
              phase' = IF ask.tool # "inspect_tf" THEN "raised" ELSE "parameter"
       PROVE  ReadsInv'
  <2>1. d \in Nat /\ d <= reading.timeout  BY <1>8
  <2>2. d <= reading.timeout + 4  BY <1>4, <2>1
  <2>3. CASE ask.tool # "inspect_tf"
    <3>1. phase' \in {"raised", "done"} /\ info' \in Nat  BY <1>2, <1>14, <2>3
    <3> QED  BY <1>12, <1>14, <2>1, <2>2, <3>1
  <2>4. CASE ask.tool = "inspect_tf"
    <3>1. phase' \in {"parameter", "dump"} /\ info' \in Nat  BY <1>2, <1>14, <2>4
    <3>2. now' \in Nat /\ now <= now' /\ now' <= ask.budget  BY <1>2, <1>4, <1>9, <1>14, <2>1
    <3> QED  BY <1>1, <1>10, <2>4, <3>1, <3>2, AloneNow
  <2> QED  BY <2>3, <2>4
<1>15. ASSUME reading.timeout > 0, info' = info, NEW d \in Stopped(wait), now' = now + d,
              phase' \in {"raised", "done"}
       PROVE  ReadsInv'
  <2>1. d \in Nat /\ d <= reading.timeout + 4 /\ info' \in Nat  BY <1>2, <1>8, <1>15
  <2> QED  BY <1>12, <1>15, <2>1
<1>16. ASSUME reading.timeout > 0, info' = bus[reading.topic].publishers,
              NEW d \in Answered(wait), now' = now + d, phase' \in {"echo", "done"}
       PROVE  ReadsInv'
  <2>1. d \in Nat /\ d <= reading.timeout  BY <1>8
  <2>2. info' \in Nat /\ d <= reading.timeout + 4  BY <1>4, <1>5, <1>16, <2>1
  <2>3. CASE phase' = "done"
    <3>1. phase' \in {"raised", "done"}  BY <2>3
    <3> QED  BY <1>12, <1>16, <2>1, <2>2, <3>1
  <2>4. CASE phase' = "echo"
    <3>1. now' \in Nat /\ now <= now' /\ now' <= reading.started + reading.timeout
      BY <1>2, <1>4, <1>16, <2>1
    <3>2. SampleInTime'
      BY <1>1, <1>2, <1>4, <1>16, <2>4, <3>1 DEF SampleInTime
    <3>3. phase' \notin Capturing /\ phase' \notin Alone /\ phase' # "urdf" /\ ~Over'
      BY <2>4 DEF Capturing, Alone, Over
    <3>4. Asked' /\ ThreadInTime'  BY <1>1, <1>10, <3>1, <3>3, AfterThread
    <3> QED  BY <2>2, <3>1, <3>2, <3>3, <3>4 DEF ReadsInv
  <2> QED  BY <1>16, <2>3, <2>4
<1> QED  BY <1>3, <1>13, <1>14, <1>15, <1>16

(* The echo of a sample gets what its lookup left of the time, and at      *)
(* least half a second.                                                    *)
LEMMA EchoGiven ==
  ASSUME ReadsInv, phase = "echo"
  PROVE  /\ EchoWait \in Nat /\ EchoWait >= 1
         /\ now + EchoWait <= reading.started + reading.timeout + 1
         /\ SampleBudget \in Int /\ SampleBudget <= reading.timeout
<1>1. /\ reading.timeout \in Int /\ reading.timeout > 0 /\ reading.started \in Nat
      /\ now \in Nat /\ now <= reading.started + reading.timeout
  BY DEF ReadsInv, SampleInTime
<1>2. MinOf({reading.timeout, LookupWait}) =
        IF reading.timeout <= LookupWait THEN reading.timeout ELSE LookupWait
  BY <1>1, SmallerTime, Durations
<1>3. SampleBudget \in Int /\ SampleBudget <= reading.timeout
  BY <1>1, <1>2, Durations DEF SampleBudget
<1> DEFINE spare == SampleBudget - (now - reading.started)
           left == AtLeast(MinStream, spare)
<1>4. spare \in Int /\ now + spare <= reading.started + reading.timeout  BY <1>1, <1>3
<1> HIDE DEF spare
<1>5. left = IF 1 >= spare THEN 1 ELSE spare  BY <1>4, AtLeastIs, Durations
<1>6. left \in Int /\ left >= 1 /\ now + left <= reading.started + reading.timeout + 1
  BY <1>1, <1>4, <1>5
<1> HIDE DEF left
<1>7. AtLeast(MinStream, left - DecodeReserve) = IF 1 >= left - 1 THEN 1 ELSE left - 1
  BY <1>6, AtLeastIs, Durations
<1>8. EchoWait = IF Filtered THEN AtLeast(MinStream, left - DecodeReserve) ELSE left
  BY DEF EchoWait, left, spare
<1>9. EchoWait \in {left, AtLeast(MinStream, left - DecodeReserve)}  BY <1>8
<1>10. EchoWait \in Int /\ EchoWait >= 1 /\ EchoWait <= left  BY <1>6, <1>7, <1>9
<1> QED  BY <1>1, <1>3, <1>6, <1>10

(* An echo and its decoding, in time.                                      *)
LEMMA EchoInTime ==
  ASSUME ReadsInv, phase = "echo", NEW r \in Echo(reading.topic, StreamCount, EchoWait)
  PROVE  /\ r.took \in Nat
         /\ \E n \in 0 .. Len(bus[reading.topic].docs) :
              r.docs = SubSeq(bus[reading.topic].docs, 1, n)
         /\ \A t \in Nat :
              t <= now + r.took \/ t <= reading.started + SampleBudget + Grace
                => t <= ask.budget /\ (ask.tool # "inspect_tf" => t <= ask.timeout + 5)
<1>1. Asked /\ SampleInTime /\ now \in Nat  BY DEF ReadsInv
<1>2. reading.topic \in Topics /\ reading.count \in Nat  BY <1>1 DEF SampleInTime
<1>3. StreamCount \in Nat
  <2>1. ask.tool = "rosout" => ask.docs \in Nat  BY <1>1 DEF Asked, IsAsk
  <2> QED  BY <1>2, <2>1 DEF StreamCount, Filtered
<1>4. /\ EchoWait \in Nat
      /\ now + EchoWait <= reading.started + reading.timeout + 1
      /\ SampleBudget \in Int /\ SampleBudget <= reading.timeout
  BY EchoGiven
<1>5. /\ r.took \in Nat /\ r.took <= EchoWait + Stop
      /\ \E n \in 0 .. Len(bus[reading.topic].docs) :
           r.docs = SubSeq(bus[reading.topic].docs, 1, n)
  <2>1. Asked /\ reading.topic \in Topics /\ StreamCount \in Nat /\ EchoWait \in Nat
    BY <1>1, <1>2, <1>3, <1>4
  <2> QED  BY <2>1, EchoReads
<1>6. /\ reading.timeout \in Int /\ reading.started \in Nat
      /\ reading.started + reading.timeout <= ask.budget - 6
  BY <1>1, Durations DEF SampleInTime
<1>7. ask.tool # "inspect_tf" =>
        reading.started = 0 /\ reading.timeout <= ask.timeout /\ ask.timeout \in Nat
  BY <1>1 DEF SampleInTime, Asked, IsAsk
<1>8. ask.budget \in Nat  BY <1>1 DEF Asked, IsAsk
<1>9. ASSUME NEW t \in Nat, t <= now + r.took \/ t <= reading.started + SampleBudget + Grace
      PROVE  t <= reading.started + reading.timeout + 5
  <2>1. r.took \in Nat /\ r.took <= EchoWait + 4 /\ now \in Nat  BY <1>1, <1>5, Durations
  <2>2. CASE t <= now + r.took  BY <1>4, <1>6, <2>1, <2>2
  <2>3. CASE t <= reading.started + SampleBudget + Grace
    <3>1. t <= reading.started + SampleBudget + 2  BY <2>3, Durations
    <3> QED  BY <1>4, <1>6, <3>1
  <2> QED  BY <1>9, <2>2, <2>3
<1>10. ASSUME NEW t \in Nat, t <= reading.started + reading.timeout + 5
       PROVE  t <= ask.budget /\ (ask.tool # "inspect_tf" => t <= ask.timeout + 5)
  <2>1. t <= ask.budget  BY <1>6, <1>8, <1>10
  <2>2. ask.tool # "inspect_tf" => t <= ask.timeout + 5
    <3> SUFFICES ASSUME ask.tool # "inspect_tf" PROVE t <= ask.timeout + 5  OBVIOUS
    <3>1. reading.started = 0 /\ reading.timeout <= ask.timeout /\ ask.timeout \in Nat
      BY <1>7
    <3> QED  BY <1>6, <1>10, <3>1
  <2> QED  BY <2>1, <2>2
<1> QED  BY <1>5, <1>9, <1>10

LEMMA SampleFailsInTime == ASSUME ReadsInv, SampleFails PROVE ReadsInv'
<1>1. /\ phase = "echo" /\ UNCHANGED <<ask, bus, worker>> /\ info' = info
      /\ phase' \in {"raised", "done"}
  BY DEF SampleFails, SampleRaises, Finish, Same
<1>2. PICK r \in Echo(reading.topic, StreamCount, EchoWait) : now' = now + r.took
  BY DEF SampleFails, Takes
<1>3. r.took \in Nat /\ now \in Nat /\ info \in Nat  BY <1>1, EchoInTime DEF ReadsInv
<1>4. now' \in Nat /\ now <= now' /\ now' <= now + r.took  BY <1>2, <1>3
<1>5. now' <= ask.budget /\ (ask.tool # "inspect_tf" => now' <= ask.timeout + 5)
  BY <1>1, <1>4, EchoInTime
<1>6. ask.budget \in Nat  BY DEF ReadsInv, Asked, IsAsk
<1>7. now' <= ask.budget + 4  BY <1>4, <1>5, <1>6
<1>8. phase \notin Capturing  BY <1>1 DEF Capturing
<1>9. info' \in Nat  BY <1>1, <1>3
<1> QED  BY <1>1, <1>4, <1>5, <1>7, <1>8, <1>9, OverNow

LEMMA SampleEchoInTime == ASSUME ReadsInv, SampleEcho PROVE ReadsInv'
<1>1. /\ phase = "echo" /\ UNCHANGED <<ask, bus, worker>> /\ info' = info
      /\ phase' \in {"done", "raised"}
  BY DEF SampleEcho, Same
<1> DEFINE until == reading.started + SampleBudget + Grace
<1>2. PICK r \in Echo(reading.topic, StreamCount, EchoWait) :
        now' = now + r.took \/ now' = MaxOf({now + r.took, until})
  BY Zenon DEF SampleEcho, Decodes, until
<1>3. r.took \in Nat /\ now \in Nat /\ info \in Nat  BY <1>1, EchoInTime DEF ReadsInv
<1>4. until \in Int
  <2>1. reading.started \in Nat /\ SampleBudget \in Int
    BY <1>1, EchoGiven DEF ReadsInv, SampleInTime
  <2> QED  BY <2>1, Durations
<1> HIDE DEF until
<1>5. now + r.took \in Int  BY <1>3
<1>6. MaxOf({now + r.took, until}) = IF now + r.took >= until THEN now + r.took ELSE until
  BY <1>4, <1>5, LargerTime
<1>7. now' \in Nat /\ now <= now' /\ (now' <= now + r.took \/ now' <= until)
  BY <1>2, <1>3, <1>4, <1>6
<1>8. now' <= ask.budget /\ (ask.tool # "inspect_tf" => now' <= ask.timeout + 5)
  BY <1>1, <1>7, EchoInTime DEF until
<1>9. ask.budget \in Nat  BY DEF ReadsInv, Asked, IsAsk
<1>10. now' <= ask.budget + 4  BY <1>7, <1>8, <1>9
<1>11. phase \notin Capturing  BY <1>1 DEF Capturing
<1>12. info' \in Nat  BY <1>1, <1>3
<1> QED  BY <1>1, <1>7, <1>8, <1>10, <1>11, <1>12, OverNow

LEMMA ParameterNodesInTime == ASSUME ReadsInv, ParameterNodes PROVE ReadsInv'
<1> DEFINE wait == MinOf({CliTimeout, AtLeast(0, Remaining)})
<1>1. /\ phase = "parameter" /\ UNCHANGED <<ask, bus, worker>> /\ info' = info
  BY DEF ParameterNodes, Same
<1>2. /\ Asked /\ now \in Nat /\ info \in Nat /\ ask.tool = "inspect_tf" /\ now <= ask.budget
  BY <1>1 DEF ReadsInv, Alone
<1>3. \/ now' = now /\ phase' = "done"
      \/ /\ \E d \in Answered(wait) : now' = now + d
         /\ phase' \in {"done", "dump"}
      \/ (\E d \in Stopped(wait) : now' = now + d) /\ phase' = "raised"
  BY DEF ParameterNodes, Takes, Finish, wait
<1>4. ask.budget \in Nat /\ Remaining \in Int /\ Remaining >= 0 /\ now + Remaining = ask.budget
  <2>1. ask.budget \in Nat  BY <1>2 DEF Asked, IsAsk
  <2> QED  BY <1>2, <2>1 DEF Remaining
<1>5. AtLeast(0, Remaining) = Remaining  BY <1>4, AtLeastIs
<1>6. wait = IF 16 <= Remaining THEN 16 ELSE Remaining  BY <1>4, <1>5, SmallerTime, Durations
<1>7. wait \in Nat /\ now + wait <= ask.budget  BY <1>2, <1>4, <1>6
<1> HIDE DEF wait
<1>8. \A d \in Answered(wait) : d \in Nat /\ now + d <= ask.budget
  BY <1>2, <1>4, <1>7, CommandEnds
<1>9. \A d \in Stopped(wait) : d \in Nat /\ now + d <= ask.budget + 4
  BY <1>2, <1>4, <1>7, CommandEnds, Durations
<1>10. phase \notin Capturing /\ info' \in Nat
  <2>1. phase \notin Capturing  BY <1>1 DEF Capturing
  <2> QED  BY <1>1, <1>2, <2>1
<1>11. /\ now' \in Nat /\ now <= now' /\ now' <= ask.budget + 4
       /\ phase' = "dump" => now' <= ask.budget
  <2>1. CASE now' = now /\ phase' = "done"  BY <1>2, <1>4, <2>1
  <2>2. CASE (\E d \in Answered(wait) : now' = now + d) /\ phase' \in {"done", "dump"}
    <3>1. PICK d \in Answered(wait) : now' = now + d  BY <2>2
    <3>2. now' \in Nat /\ now <= now' /\ now' <= ask.budget /\ now' <= ask.budget + 4
      BY <1>2, <1>4, <1>8, <3>1
    <3> QED  BY <3>2
  <2>3. CASE (\E d \in Stopped(wait) : now' = now + d) /\ phase' = "raised"
    <3>1. PICK d \in Stopped(wait) : now' = now + d  BY <2>3
    <3>2. now' \in Nat /\ now <= now' /\ now' <= ask.budget + 4
      BY <1>2, <1>4, <1>9, <3>1
    <3>3. phase' # "dump"  BY <2>3
    <3> QED  BY <3>2, <3>3
  <2> QED  BY <1>3, <2>1, <2>2, <2>3
<1>12. CASE phase' \in {"done", "raised"}
  BY <1>1, <1>2, <1>10, <1>11, <1>12, OverNow
<1>13. CASE phase' = "dump"
  <2>1. phase' \in {"parameter", "dump"} /\ now' <= ask.budget  BY <1>11, <1>13
  <2> QED  BY <1>1, <1>2, <1>10, <1>11, <2>1, AloneNow
<1> QED  BY <1>3, <1>12, <1>13

LEMMA ParameterDumpInTime == ASSUME ReadsInv, ParameterDump PROVE ReadsInv'
<1> DEFINE wait == Clamp(UrdfRead, ParamReserve)
<1>1. /\ phase = "dump" /\ phase' = "done" /\ UNCHANGED <<ask, bus, worker>> /\ info' = info
  BY DEF ParameterDump, Same
<1>2. /\ Asked /\ now \in Nat /\ info \in Nat /\ ask.tool = "inspect_tf" /\ now <= ask.budget
  BY <1>1 DEF ReadsInv, Alone
<1>3. \/ now' = now
      \/ wait > 0 /\ \E d \in Answered(wait) \cup Stopped(wait) : now' = now + d
  BY Zenon DEF ParameterDump, Takes, wait
<1>4. ask.budget \in Nat  BY <1>2 DEF Asked, IsAsk
<1>5. wait \in Int /\ now + wait <= ask.budget - 4
  <2>1. UrdfRead \in Int /\ ParamReserve \in Int /\ ParamReserve = 4  BY Durations
  <2> QED  BY <1>2, <2>1, Clamped
<1> HIDE DEF wait
<1>6. ASSUME wait > 0, NEW d \in Answered(wait) \cup Stopped(wait)
      PROVE  d \in Nat /\ d <= wait + 4
  <2>1. d \in Answered(wait) => d \in Nat /\ d <= wait  BY <1>2, <1>5, CommandEnds
  <2>2. d \in Stopped(wait) => d \in Int /\ wait <= d /\ d <= wait + 4
    BY <1>2, <1>5, CommandEnds, Durations
  <2> QED  BY <1>5, <1>6, <2>1, <2>2
<1>7. now' \in Nat /\ now <= now' /\ now' <= ask.budget + 4
  <2>1. CASE now' = now  BY <1>2, <1>4, <2>1
  <2>2. ASSUME wait > 0, NEW d \in Answered(wait) \cup Stopped(wait), now' = now + d
        PROVE  now' \in Nat /\ now <= now' /\ now' <= ask.budget + 4
    <3>1. d \in Nat /\ d <= wait + 4  BY <1>6, <2>2
    <3> QED  BY <1>2, <1>4, <1>5, <2>2, <3>1
  <2> QED  BY <1>3, <2>1, <2>2
<1>8. phase \notin Capturing /\ phase' \in {"done", "raised"}  BY <1>1 DEF Capturing
<1>9. info' \in Nat  BY <1>1, <1>2
<1> QED  BY <1>1, <1>2, <1>7, <1>8, <1>9, OverNow

LEMMA NextInTime == ReadsInv /\ [ReadsNext]_readsVars => ReadsInv'
<1> SUFFICES ASSUME ReadsInv, [ReadsNext]_readsVars PROVE ReadsInv'  OBVIOUS
<1>1. CASE StaticInfo      BY <1>1, StaticInfoInTime
<1>2. CASE StaticStart     BY <1>2, StaticStartInTime
<1>3. CASE TfInfo          BY <1>3, TfInfoInTime
<1>4. CASE Listen          BY <1>4, ListenInTime
<1>5. CASE ListenRaises    BY <1>5, ListenRaisesInTime
<1>6. CASE FinishStatic    BY <1>6, FinishStaticInTime
<1>7. CASE ReadUrdf        BY <1>7, ReadUrdfInTime
<1>8. CASE Lookup          BY <1>8, LookupInTime
<1>9. CASE SampleFails     BY <1>9, SampleFailsInTime
<1>10. CASE SampleEcho     BY <1>10, SampleEchoInTime
<1>11. CASE ParameterNodes BY <1>11, ParameterNodesInTime
<1>12. CASE ParameterDump  BY <1>12, ParameterDumpInTime
<1>13. CASE UNCHANGED readsVars
  BY <1>13 DEF readsVars, ReadsInv, Asked, ThreadInTime, SampleInTime, OverInTime, Over
<1> QED  BY <1>1, <1>2, <1>3, <1>4, <1>5, <1>6, <1>7, <1>8, <1>9, <1>10, <1>11, <1>12, <1>13
         DEF ReadsNext

(* Whatever the commands and the bus do, under every budget, a call ends   *)
(* in time and the thread of /tf_static before it.                         *)
THEOREM ReadsEndInTime == ReadsSpec => []EndsInTime
<1>1. ReadsInv => EndsInTime  BY ReadsInTime
<1> QED  BY <1>1, ReadsInitially, NextInTime, PTL DEF ReadsSpec

-----------------------------------------------------------------------------
(* What a call leaves out of its answer is told by a note.                 *)
Part(docs, t) == \E n \in 0 .. Len(bus[t].docs) : docs = SubSeq(bus[t].docs, 1, n)
Noted(t) == \E n \in notes : n[1] = t

ThreadHeard ==
  /\ Part(static, "tf_static") /\ (worker.on => Part(worker.docs, "tf_static"))
  /\ phase = "static start" => info = bus["tf_static"].publishers
  /\ phase \in {"tf info", "tf listen", "join", "join raising"} /\ ~Noted("tf_static") =>
       worker.on /\ worker.expected = bus["tf_static"].publishers /\ worker.expected > 0
  /\ phase \in {"urdf", "lookup", "echo", "parameter", "dump", "done"}
       /\ ask.tool = "inspect_tf" /\ ~Noted("tf_static") =>
         0 < bus["tf_static"].publishers /\ bus["tf_static"].publishers <= Len(static)

WindowHeard ==
  /\ Part(dynamic, "tf")
  /\ phase = "tf listen" => bus["tf"].info = "listed"
  /\ phase \in {"join", "urdf", "lookup", "echo", "parameter", "dump", "done"}
       /\ ask.tool = "inspect_tf" /\ ~Noted("tf") =>
         bus["tf"].info = "listed" /\ Len(dynamic) < ask.docs

UrdfHeard ==
  ask.tool = "inspect_tf" =>
    /\ phase \in {"lookup", "echo"} => reading.topic = "robot_description" /\ reading.count = 1
    /\ phase = "done" /\ ~Noted("urdf") => Links # {}

LogHeard ==
  Filtered =>
    /\ phase \in {"lookup", "echo"} =>
         reading.topic = "rosout" /\ {"count", "streamed"} \subseteq DOMAIN reading
    /\ phase = "done" /\ reading.count > 0 /\ <<"rosout", "not decoded">> \notin notes =>
         /\ reading.count \in Nat /\ Part(reading.streamed, "rosout")
         /\ result = NewestMatches(reading.streamed, reading.count)

HeardInv == ThreadHeard /\ WindowHeard /\ UrdfHeard /\ LogHeard

LEMMA PartOfAll ==
  ASSUME Asked, NEW t \in Topics
  PROVE  /\ bus[t].docs \in Seq(Range(bus[t].docs)) /\ Len(bus[t].docs) \in Nat
         /\ Part(<<>>, t)
         /\ \A docs : Part(docs, t) =>
              /\ docs \in Seq(Range(bus[t].docs)) /\ Len(docs) <= Len(bus[t].docs)
              /\ Range(docs) \subseteq Range(bus[t].docs)
              /\ Len(docs) = Len(bus[t].docs) => docs = bus[t].docs
<1> DEFINE all == bus[t].docs
<1>1. all \in Seq(Range(all))  BY DEF Asked, IsBus
<1>2. Len(all) \in Nat  BY <1>1
<1>3. Part(<<>>, t)
  <2>1. SubSeq(all, 1, 0) = <<>>  BY <1>1
  <2> QED  BY <1>2, <2>1 DEF Part
<1>4. ASSUME NEW docs, Part(docs, t)
      PROVE  /\ docs \in Seq(Range(all)) /\ Len(docs) <= Len(all)
             /\ Range(docs) \subseteq Range(all)
             /\ Len(docs) = Len(all) => docs = all
  <2>1. PICK n \in 0 .. Len(all) : docs = SubSeq(all, 1, n)  BY <1>4 DEF Part
  <2> HIDE DEF all
  <2>2. docs \in Seq(Range(all)) /\ Len(docs) = n /\ \A i \in 1 .. n : docs[i] = all[i]
    BY <1>1, <1>2, <2>1
  <2>3. \A i \in 1 .. n : i \in DOMAIN all /\ docs[i] = all[i]  BY <1>1, <1>2, <2>2
  <2>4. DOMAIN docs = 1 .. n  BY <2>2
  <2>5. Range(docs) \subseteq Range(all)  BY <2>3, <2>4 DEF Range
  <2>6. n = Len(all) => docs = all  BY <1>1, <2>1, <2>2
  <2> QED  BY <1>2, <2>2, <2>5, <2>6
<1> QED  BY <1>1, <1>2, <1>3, <1>4

LEMMA Unheard ==
  ASSUME ReadsInit PROVE HeardInv
<1>1. Asked  BY CallsAssumption DEF ReadsInit, Asked
<1>2. "tf_static" \in Topics /\ "tf" \in Topics  BY DEF Topics
<1>3. Part(static, "tf_static") /\ Part(dynamic, "tf")
  <2>1. static = <<>> /\ dynamic = <<>>  BY DEF ReadsInit
  <2> QED  BY <1>1, <1>2, <2>1, PartOfAll
<1>4. ~worker.on  BY DEF ReadsInit, NoThread
<1>5. CASE ask.tool = "inspect_tf"
  <2>1. phase = "static info"  BY <1>5 DEF ReadsInit
  <2> QED
    BY <1>3, <1>4, <1>5, <2>1 DEF HeardInv, ThreadHeard, WindowHeard, UrdfHeard, LogHeard, Filtered
<1>6. CASE ask.tool # "inspect_tf"
  <2>1. /\ phase = "lookup"
        /\ reading = Sampling(ask.tool, ask.count, Clamp(ask.timeout, StopReserve), 0)
    BY <1>6 DEF ReadsInit
  <2>2. reading.topic = ask.tool /\ {"count", "streamed"} \subseteq DOMAIN reading
    BY <2>1 DEF Sampling
  <2> QED
    BY <1>3, <1>4, <1>6, <2>1, <2>2
       DEF HeardInv, ThreadHeard, WindowHeard, UrdfHeard, LogHeard, Filtered
<1> QED  BY <1>5, <1>6

(* A note is never taken back, and what the bus says does not change.      *)
LEMMA InfoHeard ==
  ASSUME NEW t, NEW then, NEW else, then # else, InfoOrNote(t, then, else)
  PROVE  /\ notes \subseteq notes'
         /\ phase' = then => bus[t].info = "listed" /\ info' = bus[t].publishers
         /\ phase' = else => \E n \in notes' : n[1] = t
         /\ phase' \in {then, else}
<1>1. \/ /\ \E n : n[1] = t /\ notes' = notes \cup {n}
         /\ phase' = else
      \/ notes' = notes /\ phase' = then /\ bus[t].info = "listed" /\ info' = bus[t].publishers
  <2> DEFINE untimed == <<t, "no time to look it up">>
             absent == <<t, "not found">>
             unread == <<t, "could not be read">>
  <2>1. untimed[1] = t /\ absent[1] = t /\ unread[1] = t  OBVIOUS
  <2>2. \/ notes' = notes \cup {untimed} /\ phase' = else
        \/ notes' = notes \cup {absent} /\ phase' = else
        \/ notes' = notes \cup {unread} /\ phase' = else
        \/ notes' = notes /\ phase' = then /\ bus[t].info = "listed" /\ info' = bus[t].publishers
    BY Zenon DEF InfoOrNote, Failure, Note, Unnoted, untimed, absent, unread
  <2> HIDE DEF untimed, absent, unread
  <2> QED  BY <2>1, <2>2
<1> QED  BY <1>1

LEMMA StillTold == ASSUME notes \subseteq notes', NEW t, Noted(t) PROVE Noted(t)'
BY DEF Noted

LEMMA StaticInfoHeard == ASSUME ReadsInv, HeardInv, StaticInfo PROVE HeardInv'
<1>1. /\ phase = "static info" /\ InfoOrNote("tf_static", "static start", "tf info")
      /\ bus' = bus /\ ask' = ask /\ worker' = worker /\ static' = static /\ dynamic' = dynamic
  BY DEF StaticInfo, Same
<1>2. /\ phase' = "static start" => info' = bus["tf_static"].publishers
      /\ phase' = "tf info" => \E n \in notes' : n[1] = "tf_static"
      /\ phase' \in {"static start", "tf info"}
  BY <1>1, InfoHeard
<1>3. phase' = "tf info" => Noted("tf_static")'  BY <1>2 DEF Noted
<1>4. ThreadHeard'  BY <1>1, <1>2, <1>3 DEF HeardInv, ThreadHeard, Part
<1>5. WindowHeard'  BY <1>1, <1>2 DEF HeardInv, WindowHeard, Part
<1>6. UrdfHeard' /\ LogHeard'  BY <1>2 DEF UrdfHeard, LogHeard
<1> QED  BY <1>4, <1>5, <1>6 DEF HeardInv

LEMMA StaticStartHeard == ASSUME ReadsInv, HeardInv, StaticStart PROVE HeardInv'
<1> DEFINE wait == Clamp(AtLeast(StaticMinWait, ask.window), StopReserve)
           given(r, raised) ==
             [on |-> TRUE, started |-> now, wait |-> wait, expected |-> info,
              ends |-> now + r.took, docs |-> r.docs, raised |-> raised]
           missing == <<"tf_static", "no publisher">>
           late == <<"tf_static", "no time to read">>
<1>1. /\ phase = "static start" /\ phase' = "tf info"
      /\ bus' = bus /\ ask' = ask /\ static' = static /\ dynamic' = dynamic
  BY DEF StaticStart, Same
<1>2. \/ worker' = worker /\ notes' = notes \cup {missing}
      \/ worker' = worker /\ notes' = notes \cup {late}
      \/ /\ info # 0 /\ ~(wait < MinStream) /\ notes' = notes
         /\ \E r \in Echo("tf_static", info, wait), raised \in {FALSE, bus["tf_static"].exits} :
              worker' = given(r, raised)
  BY Zenon DEF StaticStart, Note, Failure, Unnoted, wait, given, missing, late
<1>3. Asked /\ info \in Nat /\ now \in Nat /\ ask.tool = "inspect_tf"
  BY <1>1 DEF ReadsInv, Alone, Capturing
<1>4. wait \in Int
  <2>1. ask.window \in Int /\ StaticMinWait \in Int /\ StopReserve \in Int
    BY <1>3, Durations DEF Asked, IsAsk
  <2>2. AtLeast(StaticMinWait, ask.window) \in Int  BY <2>1, AtLeastIs
  <2> QED  BY <1>3, <2>1, <2>2, Clamped
<1>5. missing[1] = "tf_static" /\ late[1] = "tf_static"  OBVIOUS
<1> HIDE DEF wait, missing, late
<1>6. info = bus["tf_static"].publishers  BY <1>1 DEF HeardInv, ThreadHeard
<1>7. ThreadHeard'
  <2>1. Part(static, "tf_static")'  BY <1>1 DEF HeardInv, ThreadHeard, Part
  <2>2. CASE worker' = worker /\ \E n \in notes' : n[1] = "tf_static"
    BY <1>1, <2>1, <2>2 DEF HeardInv, ThreadHeard, Part, Noted
  <2>3. ASSUME info # 0, ~(wait < MinStream), NEW r \in Echo("tf_static", info, wait),
               NEW raised \in {FALSE, bus["tf_static"].exits}, worker' = given(r, raised)
        PROVE  ThreadHeard'
    <3>1. wait \in Nat /\ "tf_static" \in Topics  BY <1>4, <2>3, Durations DEF Topics
    <3>2. \E n \in 0 .. Len(bus["tf_static"].docs) : r.docs = SubSeq(bus["tf_static"].docs, 1, n)
      BY <1>3, <3>1, EchoReads
    <3>3. worker'.docs = r.docs /\ worker'.expected = info /\ worker'.on  BY <2>3
    <3>4. Part(worker.docs, "tf_static")'  BY <1>1, <3>2, <3>3 DEF Part
    <3>5. worker'.expected = bus'["tf_static"].publishers /\ worker'.expected > 0
      <4>1. info > 0  BY <1>3, <2>3
      <4>2. worker'.expected = bus'["tf_static"].publishers  BY <1>1, <1>6, <3>3
      <4>3. worker'.expected > 0  BY <3>3, <4>1
      <4> QED  BY <4>2, <4>3
    <3> QED  BY <1>1, <2>1, <3>3, <3>4, <3>5 DEF ThreadHeard
  <2>4. notes' = notes \cup {missing} \/ notes' = notes \cup {late}
          => \E n \in notes' : n[1] = "tf_static"
    BY <1>5
  <2> QED  BY <1>2, <2>2, <2>3, <2>4
<1>8. WindowHeard'  BY <1>1 DEF HeardInv, WindowHeard, Part
<1>9. UrdfHeard' /\ LogHeard'  BY <1>1 DEF UrdfHeard, LogHeard
<1> QED  BY <1>7, <1>8, <1>9 DEF HeardInv

LEMMA TfInfoHeard == ASSUME ReadsInv, HeardInv, TfInfo PROVE HeardInv'
<1>1. /\ phase = "tf info" /\ InfoOrNote("tf", "tf listen", "join")
      /\ bus' = bus /\ ask' = ask /\ worker' = worker /\ static' = static /\ dynamic' = dynamic
  BY DEF TfInfo, Same
<1>2. /\ notes \subseteq notes'
      /\ phase' = "tf listen" => bus["tf"].info = "listed"
      /\ phase' = "join" => \E n \in notes' : n[1] = "tf"
      /\ phase' \in {"tf listen", "join"}
  BY <1>1, InfoHeard
<1>3. phase' = "join" => Noted("tf")'  BY <1>2 DEF Noted
<1>4. ~Noted("tf_static")' => ~Noted("tf_static")  BY <1>2, StillTold
<1>5. ThreadHeard'  BY <1>1, <1>2, <1>4 DEF HeardInv, ThreadHeard, Part
<1>6. WindowHeard'  BY <1>1, <1>2, <1>3 DEF HeardInv, WindowHeard, Part
<1>7. UrdfHeard' /\ LogHeard'  BY <1>2 DEF UrdfHeard, LogHeard
<1> QED  BY <1>5, <1>6, <1>7 DEF HeardInv

LEMMA ListenHeard == ASSUME ReadsInv, HeardInv, Listen PROVE HeardInv'
<1> DEFINE window == IF info > 0 THEN ask.window ELSE MinOf({ask.window, NoPublisherWait})
           wait   == Clamp(window, StopReserve)
           late   == <<"tf", "no time to listen">>
           capped == <<"tf", "capped">>
<1>1. /\ phase = "tf listen" /\ phase' = "join"
      /\ bus' = bus /\ ask' = ask /\ worker' = worker /\ static' = static
  BY DEF Listen, Same
<1>2. Asked /\ info \in Nat /\ now \in Nat /\ ask.tool = "inspect_tf"
  BY <1>1 DEF ReadsInv, Alone, Capturing
<1>3. \/ dynamic' = dynamic /\ notes' = notes \cup {late}
      \/ /\ ~(wait < MinStream)
         /\ \E r \in Echo("tf", ask.docs, wait) :
              /\ dynamic' = r.docs /\ notes \subseteq notes'
              /\ Len(r.docs) >= ask.docs => capped \in notes'
  BY DEF Listen, Failure, Note, wait, window, late, capped
<1>4. wait \in Int
  <2>1. ask.window \in Int /\ NoPublisherWait \in Int /\ StopReserve \in Int
    BY <1>2, Durations DEF Asked, IsAsk
  <2>2. MinOf({ask.window, NoPublisherWait}) \in Int  BY <2>1, SmallerTime
  <2>3. window \in Int  BY <2>1, <2>2
  <2> QED  BY <1>2, <2>1, <2>3, Clamped
<1>5. late[1] = "tf" /\ capped[1] = "tf"  OBVIOUS
<1> HIDE DEF wait, late, capped
<1>6. notes \subseteq notes' /\ bus["tf"].info = "listed" /\ Part(dynamic, "tf")
  BY <1>1, <1>3 DEF HeardInv, WindowHeard
<1>7. Part(dynamic, "tf")' /\ (~Noted("tf")' => Len(dynamic') < ask.docs)
  <2>1. CASE dynamic' = dynamic /\ notes' = notes \cup {late}
    BY <1>1, <1>5, <1>6, <2>1 DEF Part, Noted
  <2>2. ASSUME ~(wait < MinStream), NEW r \in Echo("tf", ask.docs, wait), dynamic' = r.docs,
               Len(r.docs) >= ask.docs => capped \in notes'
        PROVE  Part(dynamic, "tf")' /\ (~Noted("tf")' => Len(dynamic') < ask.docs)
    <3>1. wait \in Nat /\ "tf" \in Topics  BY <1>4, <2>2, Durations DEF Topics
    <3>2. ask.docs \in Nat  BY <1>2 DEF Asked, IsAsk
    <3>3. \E n \in 0 .. Len(bus["tf"].docs) : r.docs = SubSeq(bus["tf"].docs, 1, n)
      BY <1>2, <3>1, <3>2, EchoReads
    <3>4. Part(r.docs, "tf")  BY <3>3 DEF Part
    <3>5. Len(r.docs) \in Nat
      <4>1. r.docs \in Seq(Range(bus["tf"].docs))  BY <1>2, <3>1, <3>4, PartOfAll
      <4> QED  BY <4>1
    <3>6. Len(r.docs) >= ask.docs => Noted("tf")'  BY <1>5, <2>2 DEF Noted
    <3>7. Len(r.docs) >= ask.docs \/ Len(r.docs) < ask.docs  BY <3>2, <3>5
    <3> QED  BY <1>1, <2>2, <3>3, <3>6, <3>7 DEF Part
  <2> QED  BY <1>3, <2>1, <2>2
<1>8. ~Noted("tf_static")' => ~Noted("tf_static")  BY <1>6, StillTold
<1>9. ThreadHeard'  BY <1>1, <1>8 DEF HeardInv, ThreadHeard, Part
<1>10. WindowHeard'  BY <1>1, <1>6, <1>7 DEF WindowHeard
<1>11. UrdfHeard' /\ LogHeard'  BY <1>1 DEF UrdfHeard, LogHeard
<1> QED  BY <1>9, <1>10, <1>11 DEF HeardInv

LEMMA ListenRaisesHeard == ASSUME ReadsInv, HeardInv, ListenRaises PROVE HeardInv'
<1>1. /\ phase = "tf listen" /\ phase' = "join raising" /\ notes' = notes
      /\ bus' = bus /\ ask' = ask /\ worker' = worker /\ static' = static /\ dynamic' = dynamic
  BY DEF ListenRaises, Same
<1>2. ThreadHeard'  BY <1>1 DEF HeardInv, ThreadHeard, Part, Noted
<1>3. WindowHeard'  BY <1>1 DEF HeardInv, WindowHeard, Part
<1>4. UrdfHeard' /\ LogHeard'  BY <1>1 DEF UrdfHeard, LogHeard
<1> QED  BY <1>2, <1>3, <1>4 DEF HeardInv

LEMMA FinishStaticHeard == ASSUME ReadsInv, HeardInv, FinishStatic PROVE HeardInv'
<1> DEFINE lost == <<"tf_static", IF InTime THEN "could not be read" ELSE "not in time">>
           fewer == <<"tf_static", "some publishers missing">>
<1>1. /\ phase \in {"join", "join raising"} /\ phase' \in {"raised", "urdf"}
      /\ phase = "join raising" => phase' = "raised"
      /\ bus' = bus /\ ask' = ask /\ worker' = worker /\ dynamic' = dynamic
  BY DEF FinishStatic, Same
<1>2. \/ ~worker.on /\ static' = static /\ notes' = notes
      \/ static' = static /\ notes' = notes \cup {lost}
      \/ /\ worker.on /\ static' = worker.docs
         /\ notes' = IF Len(worker.docs) < worker.expected THEN notes \cup {fewer} ELSE notes
  BY Zenon DEF FinishStatic, Unnoted, Failure, Note, lost, fewer
<1>3. lost[1] = "tf_static" /\ fewer[1] = "tf_static"  OBVIOUS
<1> HIDE DEF lost, fewer
<1>4. notes \subseteq notes'  BY <1>2
<1>5. Asked  BY DEF ReadsInv
<1>6. \A t : ~Noted(t)' => ~Noted(t)  BY <1>4 DEF Noted
<1>7. ThreadHeard'
  <2>1. CASE ~worker.on /\ static' = static /\ notes' = notes
    <3>1. Noted("tf_static")  BY <1>1, <2>1 DEF HeardInv, ThreadHeard
    <3> QED  BY <1>1, <1>6, <2>1, <3>1 DEF HeardInv, ThreadHeard, Part
  <2>2. CASE static' = static /\ notes' = notes \cup {lost}
    <3>1. Noted("tf_static")'  BY <1>3, <2>2 DEF Noted
    <3> QED  BY <1>1, <2>2, <3>1 DEF HeardInv, ThreadHeard, Part
  <2>3. CASE /\ worker.on /\ static' = worker.docs
             /\ notes' = IF Len(worker.docs) < worker.expected THEN notes \cup {fewer} ELSE notes
    <3>1. Part(worker.docs, "tf_static")  BY <2>3 DEF HeardInv, ThreadHeard
    <3>2. Len(worker.docs) \in Nat
      <4>1. "tf_static" \in Topics  BY DEF Topics
      <4>2. worker.docs \in Seq(Range(bus["tf_static"].docs))  BY <1>5, <3>1, <4>1, PartOfAll
      <4> QED  BY <4>2
    <3>3. bus["tf_static"].publishers \in Nat  BY <1>5 DEF Asked, IsBus, Topics
    <3>4. ~Noted("tf_static")' =>
            0 < bus["tf_static"].publishers /\ bus["tf_static"].publishers <= Len(worker.docs)
      <4> SUFFICES ASSUME ~Noted("tf_static")'
                   PROVE  /\ 0 < bus["tf_static"].publishers
                          /\ bus["tf_static"].publishers <= Len(worker.docs)
        OBVIOUS
      <4>1. worker.expected = bus["tf_static"].publishers /\ worker.expected > 0
        BY <1>1, <1>6 DEF HeardInv, ThreadHeard
      <4>2. ~(Len(worker.docs) < worker.expected)  BY <1>3, <2>3 DEF Noted
      <4> QED  BY <3>2, <3>3, <4>1, <4>2
    <3> QED  BY <1>1, <2>3, <3>1, <3>4 DEF ThreadHeard, Part
  <2> QED  BY <1>2, <2>1, <2>2, <2>3
<1>8. WindowHeard'  BY <1>1, <1>6 DEF HeardInv, WindowHeard, Part
<1>9. UrdfHeard' /\ LogHeard'  BY <1>1 DEF UrdfHeard, LogHeard
<1> QED  BY <1>7, <1>8, <1>9 DEF HeardInv

(* What was heard of the tree stays so after the capture.                  *)
LEMMA AfterHeard ==
  ASSUME HeardInv, phase \in {"urdf", "lookup", "echo", "parameter", "dump"},
         phase' \in {"lookup", "echo", "parameter", "dump", "done", "raised"},
         notes \subseteq notes', UNCHANGED <<ask, bus, worker, static, dynamic>>
  PROVE  ThreadHeard' /\ WindowHeard'
<1>1. \A t : ~Noted(t)' => ~Noted(t)  BY DEF Noted
<1>2. ThreadHeard'  BY <1>1 DEF HeardInv, ThreadHeard, Part
<1>3. WindowHeard'  BY <1>1 DEF HeardInv, WindowHeard, Part
<1> QED  BY <1>2, <1>3

LEMMA ReadUrdfHeard == ASSUME ReadsInv, HeardInv, ReadUrdf PROVE HeardInv'
<1> DEFINE timeout == Clamp(Clamp(UrdfRead, UrdfReserve), StopReserve)
           late == <<"urdf", "no time">>
<1>1. phase = "urdf" /\ UNCHANGED <<ask, bus, worker, static, dynamic>> /\ ask' = ask
  BY DEF ReadUrdf, Same
<1>2. ask.tool = "inspect_tf"  BY <1>1 DEF ReadsInv, Alone
<1>3. \/ phase' = "done" /\ notes' = notes \cup {late}
      \/ /\ phase' = "lookup" /\ notes' = notes
         /\ reading' = Sampling("robot_description", 1, timeout, now)
  BY Zenon DEF ReadUrdf, Finish, Note, timeout, late
<1>4. late[1] = "urdf"  OBVIOUS
<1> HIDE DEF timeout, late
<1>5. ThreadHeard' /\ WindowHeard'  BY <1>1, <1>3, AfterHeard
<1>6. UrdfHeard'
  <2>1. CASE phase' = "done" /\ notes' = notes \cup {late}
    <3>1. Noted("urdf")'  BY <1>4, <2>1 DEF Noted
    <3> QED  BY <2>1, <3>1 DEF UrdfHeard
  <2>2. CASE /\ phase' = "lookup"
             /\ reading' = Sampling("robot_description", 1, timeout, now)
    <3>1. reading'.topic = "robot_description" /\ reading'.count = 1  BY <2>2 DEF Sampling
    <3> QED  BY <2>2, <3>1 DEF UrdfHeard
  <2> QED  BY <1>3, <2>1, <2>2
<1>7. LogHeard'  BY <1>1, <1>2 DEF LogHeard, Filtered
<1> QED  BY <1>5, <1>6, <1>7 DEF HeardInv

(* A sample that raises fails its tool; inspect_tf tells of it, or goes on *)
(* to the parameter.                                                       *)
LEMMA RaisesHeard ==
  ASSUME NEW why, SampleRaises(why)
  PROVE  /\ notes \subseteq notes'
         /\ \/ ask.tool # "inspect_tf" /\ phase' = "raised"
            \/ ask.tool = "inspect_tf" /\ phase' = "parameter"
            \/ ask.tool = "inspect_tf" /\ phase' = "done" /\ \E n \in notes' : n[1] = "urdf"
<1> DEFINE note == <<"urdf", why>>
<1>1. \/ ask.tool # "inspect_tf" /\ phase' = "raised" /\ notes' = notes
      \/ ask.tool = "inspect_tf" /\ phase' = "parameter" /\ notes' = notes
      \/ ask.tool = "inspect_tf" /\ phase' = "done" /\ notes' = notes \cup {note}
  BY Zenon DEF SampleRaises, Finish, Note, note
<1>2. note[1] = "urdf"  OBVIOUS
<1> HIDE DEF note
<1> QED  BY <1>1, <1>2

LEMMA LookupHeard == ASSUME ReadsInv, HeardInv, Lookup PROVE HeardInv'
<1>1. /\ phase = "lookup" /\ UNCHANGED <<ask, bus, worker, static, dynamic>>
      /\ ask' = ask /\ reading' = reading
  BY DEF Lookup, Same
<1>2. \/ \E why : SampleRaises(why)
      \/ /\ phase' = (IF reading.count = 0 THEN "done" ELSE "echo")
         /\ notes' = notes
  BY DEF Lookup
<1>3. CASE \E why : SampleRaises(why)
  <2>1. PICK why : SampleRaises(why)  BY <1>3
  <2>2. /\ notes \subseteq notes'
        /\ \/ ask.tool # "inspect_tf" /\ phase' = "raised"
           \/ ask.tool = "inspect_tf" /\ phase' = "parameter"
           \/ ask.tool = "inspect_tf" /\ phase' = "done" /\ Noted("urdf")'
    BY <2>1, RaisesHeard DEF Noted
  <2>3. ThreadHeard' /\ WindowHeard'  BY <1>1, <2>2, AfterHeard
  <2>4. UrdfHeard' /\ LogHeard'  BY <1>1, <2>2 DEF UrdfHeard, LogHeard, Filtered
  <2> QED  BY <2>3, <2>4 DEF HeardInv
<1>4. CASE phase' = (IF reading.count = 0 THEN "done" ELSE "echo") /\ notes' = notes
  <2>1. ThreadHeard' /\ WindowHeard'  BY <1>1, <1>4, AfterHeard
  <2>2. UrdfHeard'
    <3>1. ask.tool = "inspect_tf" => reading.topic = "robot_description" /\ reading.count = 1
      BY <1>1 DEF HeardInv, UrdfHeard
    <3>2. ask.tool = "inspect_tf" => phase' = "echo"
      <4> SUFFICES ASSUME ask.tool = "inspect_tf" PROVE phase' = "echo"  OBVIOUS
      <4>1. reading.count # 0  BY <3>1
      <4> QED  BY <1>4, <4>1
    <3> QED  BY <1>1, <3>1, <3>2 DEF UrdfHeard
  <2>3. LogHeard'
    <3>1. Filtered => reading.topic = "rosout" /\ {"count", "streamed"} \subseteq DOMAIN reading
      BY <1>1 DEF HeardInv, LogHeard
    <3>2. phase' = "done" => ~(reading'.count > 0)
      <4>1. CASE reading.count = 0  BY <1>1, <4>1
      <4>2. CASE reading.count # 0  BY <1>4, <4>2
      <4> QED  BY <4>1, <4>2
    <3> QED  BY <1>1, <3>1, <3>2 DEF LogHeard, Filtered
  <2> QED  BY <2>1, <2>2, <2>3 DEF HeardInv
<1> QED  BY <1>2, <1>3, <1>4

LEMMA SampleFailsHeard == ASSUME ReadsInv, HeardInv, SampleFails PROVE HeardInv'
<1> DEFINE note == <<"urdf", "echo failed">>
<1>1. /\ phase = "echo" /\ UNCHANGED <<ask, bus, worker, static, dynamic>> /\ ask' = ask
      /\ SampleRaises("echo failed")
  BY DEF SampleFails, Same
<1>2. \/ ask.tool # "inspect_tf" /\ phase' = "raised" /\ notes' = notes
      \/ ask.tool = "inspect_tf" /\ phase' = "done" /\ notes' = notes \cup {note}
  BY <1>1 DEF SampleRaises, Finish, Note
<1>3. note[1] = "urdf"  OBVIOUS
<1> HIDE DEF note
<1>4. notes \subseteq notes' /\ (phase' = "done" => Noted("urdf")')  BY <1>2, <1>3 DEF Noted
<1>5. ThreadHeard' /\ WindowHeard'  BY <1>1, <1>2, <1>4, AfterHeard
<1>6. UrdfHeard' /\ LogHeard'  BY <1>1, <1>2, <1>4 DEF UrdfHeard, LogHeard, Filtered
<1> QED  BY <1>5, <1>6 DEF HeardInv

LEMMA KeptWhole ==
  ASSUME NEW T, NEW s \in Seq(T), NEW n \in 0 .. Len(s), ~(n < Len(s))
  PROVE  SubSeq(s, 1, n) = s
<1>1. Len(s) \in Nat /\ n = Len(s)  OBVIOUS
<1> QED  BY <1>1

LEMMA SampleEchoHeard == ASSUME ReadsInv, HeardInv, SampleEcho PROVE HeardInv'
<1>1. /\ phase = "echo" /\ phase' = "done" /\ UNCHANGED <<ask, bus, worker, static, dynamic>>
      /\ ask' = ask /\ bus' = bus
  BY DEF SampleEcho, Same
<1> DEFINE cut(n, r) == n < Len(r.docs)
           undone == <<reading.topic, "not decoded">>
           kept(r, n) == SubSeq(r.docs, 1, n)
<1>2. PICK r \in Echo(reading.topic, StreamCount, EchoWait) : \E n \in 0 .. Len(r.docs) :
        /\ reading' = [reading EXCEPT !.streamed = r.docs]
        /\ result' = IF Filtered THEN NewestMatches(kept(r, n), reading.count) ELSE kept(r, n)
        /\ notes' = notes \cup UrdfNotes(kept(r, n))
             \cup (IF Filtered THEN LogNotes(r) ELSE ShortNote(r, reading.count))
             \cup (IF cut(n, r) THEN {undone} ELSE {})
  BY DEF SampleEcho, kept, cut, undone
<1>3. PICK n \in 0 .. Len(r.docs) :
        /\ reading' = [reading EXCEPT !.streamed = r.docs]
        /\ result' = IF Filtered THEN NewestMatches(kept(r, n), reading.count) ELSE kept(r, n)
        /\ notes \subseteq notes' /\ UrdfNotes(kept(r, n)) \subseteq notes'
        /\ cut(n, r) => undone \in notes'
  BY <1>2
<1>4. ThreadHeard' /\ WindowHeard'  BY <1>1, <1>3, AfterHeard
<1>5. UrdfHeard'
  <2> SUFFICES ASSUME ask.tool = "inspect_tf", ~Noted("urdf")' PROVE Links' # {}
    BY <1>1 DEF UrdfHeard
  <2> DEFINE docs == kept(r, n)
             none == <<"urdf", "no description">>
             other == <<"urdf", "not compared">>
  <2>1. none[1] = "urdf" /\ other[1] = "urdf"  OBVIOUS
  <2>2. UrdfNotes(docs) = IF docs = <<>> THEN {none} ELSE IF ~Readable(docs[1]) THEN {other} ELSE {}
    BY DEF UrdfNotes
  <2>3. result' = docs  BY <1>3 DEF Filtered
  <2>4. none \notin notes' /\ other \notin notes'
    <3> HIDE DEF none, other
    <3> QED  BY <2>1 DEF Noted
  <2> HIDE DEF docs, none, other
  <2>5. UrdfNotes(docs) \subseteq notes'  BY <1>3 DEF docs
  <2>6. docs # <<>> /\ Readable(docs[1])  BY <2>2, <2>4, <2>5
  <2> QED  BY <2>3, <2>6 DEF Links, Readable
<1>6. LogHeard'
  <2> SUFFICES ASSUME Filtered, <<"rosout", "not decoded">> \notin notes'
               PROVE  /\ reading'.count \in Nat /\ Part(reading'.streamed, "rosout")
                      /\ result' = NewestMatches(reading'.streamed, reading'.count)
    BY <1>1 DEF LogHeard, Filtered, Part, NewestMatches, Matches
  <2>1. reading.topic = "rosout"  BY <1>1 DEF HeardInv, LogHeard
  <2>2. \E m \in 0 .. Len(bus["rosout"].docs) : r.docs = SubSeq(bus["rosout"].docs, 1, m)
    BY <1>1, <2>1, EchoInTime
  <2>3. Part(r.docs, "rosout")  BY <2>2 DEF Part
  <2>4. Asked /\ "rosout" \in Topics  BY DEF ReadsInv, Topics
  <2>5. r.docs \in Seq(Range(bus["rosout"].docs))  BY <2>3, <2>4, PartOfAll
  <2>6. ~cut(n, r)  BY <1>3, <2>1
  <2>7. kept(r, n) = r.docs  BY <2>5, <2>6, KeptWhole
  <2>8. result' = NewestMatches(r.docs, reading.count)
    <3> HIDE DEF kept
    <3> QED  BY <1>3, <2>7
  <2>9. {"count", "streamed"} \subseteq DOMAIN reading  BY <1>1 DEF HeardInv, LogHeard
  <2>10. reading'.streamed = r.docs /\ reading'.count = reading.count
    <3> HIDE DEF kept, cut
    <3>1. reading' = [reading EXCEPT !.streamed = r.docs]  BY <1>3
    <3> QED  BY <2>9, <3>1
  <2>11. reading.count \in Nat  BY <1>1 DEF ReadsInv, SampleInTime
  <2> QED  BY <2>3, <2>8, <2>10, <2>11
<1> QED  BY <1>4, <1>5, <1>6 DEF HeardInv

LEMMA ParameterNodesHeard == ASSUME ReadsInv, HeardInv, ParameterNodes PROVE HeardInv'
<1> DEFINE late == <<"urdf", "no time">>
           none == <<"urdf", "no holder">>
<1>1. phase = "parameter" /\ UNCHANGED <<ask, bus, worker, static, dynamic>> /\ ask' = ask
  BY DEF ParameterNodes, Same
<1>2. \/ phase' = "done" /\ notes' = notes \cup {late}
      \/ phase' = "done" /\ notes' = notes \cup {none}
      \/ phase' \in {"dump", "raised"} /\ notes' = notes
  BY DEF ParameterNodes, Finish, Note
<1>3. late[1] = "urdf" /\ none[1] = "urdf"  OBVIOUS
<1>4. ask.tool = "inspect_tf"  BY <1>1 DEF ReadsInv, Alone
<1> HIDE DEF late, none
<1>5. notes \subseteq notes' /\ (phase' = "done" => Noted("urdf")')  BY <1>2, <1>3 DEF Noted
<1>6. ThreadHeard' /\ WindowHeard'  BY <1>1, <1>2, <1>5, AfterHeard
<1>7. UrdfHeard' /\ LogHeard'  BY <1>1, <1>2, <1>4, <1>5 DEF UrdfHeard, LogHeard, Filtered
<1> QED  BY <1>6, <1>7 DEF HeardInv

LEMMA ParameterDumpHeard == ASSUME ReadsInv, HeardInv, ParameterDump PROVE HeardInv'
<1> DEFINE late == <<"urdf", "no time">>
           said == <<"urdf", IF Readable(bus.description) THEN "from the parameter"
                             ELSE "not compared">>
           none == <<"urdf", "no description">>
<1>1. /\ phase = "dump" /\ phase' = "done" /\ UNCHANGED <<ask, bus, worker, static, dynamic>>
      /\ ask' = ask
  BY DEF ParameterDump, Same
<1>2. \/ notes' = notes \cup {late} \/ notes' = notes \cup {said} \/ notes' = notes \cup {none}
  BY Zenon DEF ParameterDump, Note, late, said, none
<1>3. late[1] = "urdf" /\ said[1] = "urdf" /\ none[1] = "urdf"  OBVIOUS
<1>4. ask.tool = "inspect_tf"  BY <1>1 DEF ReadsInv, Alone
<1> HIDE DEF late, said, none
<1>5. notes \subseteq notes' /\ Noted("urdf")'  BY <1>2, <1>3 DEF Noted
<1>6. ThreadHeard' /\ WindowHeard'  BY <1>1, <1>5, AfterHeard
<1>7. UrdfHeard' /\ LogHeard'  BY <1>1, <1>4, <1>5 DEF UrdfHeard, LogHeard, Filtered
<1> QED  BY <1>6, <1>7 DEF HeardInv

LEMMA NextHeard == ReadsInv /\ HeardInv /\ [ReadsNext]_readsVars => HeardInv'
<1> SUFFICES ASSUME ReadsInv, HeardInv, [ReadsNext]_readsVars PROVE HeardInv'  OBVIOUS
<1>1. CASE StaticInfo      BY <1>1, StaticInfoHeard
<1>2. CASE StaticStart     BY <1>2, StaticStartHeard
<1>3. CASE TfInfo          BY <1>3, TfInfoHeard
<1>4. CASE Listen          BY <1>4, ListenHeard
<1>5. CASE ListenRaises    BY <1>5, ListenRaisesHeard
<1>6. CASE FinishStatic    BY <1>6, FinishStaticHeard
<1>7. CASE ReadUrdf        BY <1>7, ReadUrdfHeard
<1>8. CASE Lookup          BY <1>8, LookupHeard
<1>9. CASE SampleFails     BY <1>9, SampleFailsHeard
<1>10. CASE SampleEcho     BY <1>10, SampleEchoHeard
<1>11. CASE ParameterNodes BY <1>11, ParameterNodesHeard
<1>12. CASE ParameterDump  BY <1>12, ParameterDumpHeard
<1>13. CASE UNCHANGED readsVars
  <2>1. ThreadHeard' /\ WindowHeard'
    BY <1>13 DEF readsVars, HeardInv, ThreadHeard, WindowHeard, Part, Noted
  <2>2. UrdfHeard' /\ LogHeard'
    BY <1>13 DEF readsVars, HeardInv, UrdfHeard, LogHeard, Part, Noted, Links, Filtered,
                 NewestMatches, Matches
  <2> QED  BY <2>1, <2>2 DEF HeardInv
<1> QED  BY <1>1, <1>2, <1>3, <1>4, <1>5, <1>6, <1>7, <1>8, <1>9, <1>10, <1>11, <1>12, <1>13
         DEF ReadsNext

LEMMA ReadsHeard == ReadsSpec => [](ReadsInv /\ HeardInv)
<1>1. ReadsInit => ReadsInv /\ HeardInv  BY ReadsInitially, Unheard
<1>2. ReadsInv /\ HeardInv /\ [ReadsNext]_readsVars => (ReadsInv /\ HeardInv)'
  BY NextInTime, NextHeard
<1> QED  BY <1>1, <1>2, PTL DEF ReadsSpec

(* With no note on /tf_static as many documents were read as it has        *)
(* publishers, so that all were, when no publisher speaks twice.           *)
LEMMA AllLatched ==
  ASSUME Asked, ThreadHeard, Reported, ~Noted("tf_static"),
         IsInjective([i \in DOMAIN bus["tf_static"].docs |-> bus["tf_static"].docs[i].from])
  PROVE  static = bus["tf_static"].docs
<1> DEFINE latched == bus["tf_static"].docs
           publishers == bus["tf_static"].publishers
           from == [i \in 1 .. Len(latched) |-> latched[i].from]
<1>1. "tf_static" \in Topics  BY DEF Topics
<1>2. latched \in Seq(Range(latched)) /\ Len(latched) \in Nat /\ Part(static, "tf_static")
  BY <1>1, PartOfAll DEF ThreadHeard
<1>3. publishers \in Nat  BY <1>1 DEF Asked, IsBus
<1>4. 0 < publishers /\ publishers <= Len(static)  BY DEF ThreadHeard, Reported
<1>5. Len(static) \in Nat /\ Len(static) <= Len(latched)
  <2>1. static \in Seq(Range(latched)) /\ Len(static) <= Len(latched)  BY <1>1, <1>2, PartOfAll
  <2> QED  BY <2>1
<1>6. \A i \in 1 .. Len(latched) : latched[i].from \in 1 .. publishers
  <2>1. \A d \in Range(latched) : d.from \in 1 .. publishers  BY <1>4 DEF Asked, IsBus
  <2>2. \A i \in 1 .. Len(latched) : latched[i] \in Range(latched)  BY <1>2 DEF Range
  <2> QED  BY <2>1, <2>2
<1>7. DOMAIN latched = 1 .. Len(latched)  BY <1>2
<1>8. IsInjective(from)  BY <1>7
<1> HIDE DEF latched, publishers
<1>9. from \in Injection(1 .. Len(latched), 1 .. publishers)
  BY <1>6, <1>8 DEF Injection
<1>10. /\ IsFiniteSet(1 .. publishers) /\ Cardinality(1 .. publishers) = publishers
       /\ IsFiniteSet(1 .. Len(latched)) /\ Cardinality(1 .. Len(latched)) = Len(latched)
  BY <1>2, <1>3, UpTo
<1>11. Len(latched) <= publishers
  <2> HIDE DEF from
  <2> QED  BY <1>9, <1>10, FS_Injection
<1>12. Len(static) = Len(latched)  BY <1>2, <1>3, <1>4, <1>5, <1>11
<1> QED  BY <1>1, <1>2, <1>12, PartOfAll DEF latched

(* Whatever was late, missing or cut short, an answer of inspect_tf that   *)
(* does not say so has it.                                                 *)
THEOREM ReadsTellSilence == ReadsSpec => []SilenceIsEarned
<1>1. ReadsInv /\ HeardInv => SilenceIsEarned
  <2> SUFFICES ASSUME ReadsInv, HeardInv, Reported PROVE SilenceIsEarned
    BY DEF SilenceIsEarned
  <2> DEFINE latched == bus["tf_static"].docs
  <2>1. Asked /\ ThreadHeard /\ WindowHeard /\ UrdfHeard  BY DEF ReadsInv, HeardInv
  <2>2. ~Noted("tf_static") /\ IsInjective([i \in DOMAIN latched |-> latched[i].from])
          => Transforms(latched) \subseteq Capture
    <3>1. ~Noted("tf_static") /\ IsInjective([i \in DOMAIN latched |-> latched[i].from])
            => static = latched
      BY <2>1, AllLatched
    <3> QED  BY <3>1 DEF Capture
  <2>3. ~Noted("tf") => Len(dynamic) < ask.docs /\ bus["tf"].info = "listed"
    BY <2>1 DEF WindowHeard, Reported
  <2>4. ~Noted("urdf") => Links # {}  BY <2>1 DEF UrdfHeard, Reported
  <2> HIDE DEF latched
  <2> QED  BY <2>2, <2>3, <2>4 DEF SilenceIsEarned, Noted, latched
<1> QED  BY <1>1, ReadsHeard, PTL

-----------------------------------------------------------------------------
(* What a filtered read of /rosout leaves out is older than what it gives. *)
Hit(docs) == {i \in DOMAIN docs : Matches(docs[i])}
Sorted(docs) ==
  SortedBy(Hit(docs), [i \in Hit(docs) |-> {j \in Hit(docs) : EarlierLog(docs, j, i)}])

LEMMA LogsSorted ==
  ASSUME NEW T, NEW docs \in Seq(T), \A i \in 1 .. Len(docs) : docs[i].stamp \in Int
  PROVE  LET c == Cardinality(Hit(docs))
         IN  /\ c \in Nat /\ Sorted(docs) \in Seq(Hit(docs)) /\ Len(Sorted(docs)) = c
             /\ \A p, q \in 1 .. c : p < q => EarlierLog(docs, Sorted(docs)[p], Sorted(docs)[q])
             /\ \A i \in Hit(docs) : \E p \in 1 .. c : Sorted(docs)[p] = i
<1> DEFINE S == Hit(docs)
           E == [i \in S |-> {j \in S : EarlierLog(docs, j, i)}]
           stamp(i) == docs[i].stamp
<1>1. Len(docs) \in Nat /\ DOMAIN docs = 1 .. Len(docs)  OBVIOUS
<1>2. S \in SUBSET (1 .. Len(docs))  BY <1>1 DEF Hit
<1>3. IsFiniteSet(S)
  <2>1. IsFiniteSet(1 .. Len(docs))  BY <1>1, UpTo
  <2> QED  BY <1>2, <2>1, FS_Subset
<1>4. \A i \in S : i \in Int /\ stamp(i) \in Int  BY <1>1, <1>2
<1>5. \A i, j : EarlierLog(docs, j, i) <=> stamp(j) < stamp(i) \/ (stamp(j) = stamp(i) /\ j < i)
  BY Zenon DEF EarlierLog
<1>6. \A x, y \in S : x \in E[y] <=> stamp(x) < stamp(y) \/ (stamp(x) = stamp(y) /\ x < y)
  <2> HIDE DEF S, stamp
  <2> QED  BY <1>5
<1>7. \A x \in S : E[x] \subseteq S  OBVIOUS
<1> HIDE DEF S, E, stamp
<1>8. \A x \in S : E[x] \subseteq S \ {x}  BY <1>4, <1>6, <1>7
<1>9. \A x, y \in S : x # y => x \in E[y] \/ y \in E[x]  BY <1>4, <1>6
<1>10. \A x, y \in S : x \in E[y] => E[x] \subseteq E[y]
  <2> SUFFICES ASSUME NEW x \in S, NEW y \in S, x \in E[y], NEW z \in E[x] PROVE z \in E[y]
    OBVIOUS
  <2>1. z \in S  BY <1>7
  <2>2. stamp(z) < stamp(x) \/ (stamp(z) = stamp(x) /\ z < x)  BY <1>6, <2>1
  <2>3. stamp(x) < stamp(y) \/ (stamp(x) = stamp(y) /\ x < y)  BY <1>6
  <2>4. stamp(z) < stamp(y) \/ (stamp(z) = stamp(y) /\ z < y)
    BY <1>4, <2>1, <2>2, <2>3
  <2> QED  BY <1>6, <2>1, <2>4
<1>11. Sorted(docs) = SortedBy(S, E)  BY DEF Sorted, S, E
<1>12. /\ Cardinality(S) \in Nat /\ SortedBy(S, E) \in Seq(S)
       /\ Len(SortedBy(S, E)) = Cardinality(S)
  BY <1>3, <1>8, <1>9, <1>10, OrderedIn
<1>13. /\ \A p, q \in 1 .. Cardinality(S) : p < q => SortedBy(S, E)[p] \in E[SortedBy(S, E)[q]]
       /\ \A i \in S : \E p \in 1 .. Cardinality(S) : SortedBy(S, E)[p] = i
  BY <1>3, <1>8, <1>9, <1>10, SortedInPlace
<1>14. \A p \in 1 .. Cardinality(S) : SortedBy(S, E)[p] \in S  BY <1>12
<1>15. \A x, y \in S : x \in E[y] => EarlierLog(docs, x, y)  BY <1>5, <1>6
<1>16. \A p, q \in 1 .. Cardinality(S) :
         p < q => EarlierLog(docs, SortedBy(S, E)[p], SortedBy(S, E)[q])
  BY <1>13, <1>14, <1>15
<1> QED  BY <1>11, <1>12, <1>13, <1>16 DEF S

(* given is the newest n hits of docs, in the order of their stamps.       *)
NewestOf(given, docs, n) ==
  /\ \A p \in 1 .. Len(given) : \E i \in Hit(docs) : given[p] = docs[i]
  /\ \A p \in 1 .. Len(given) - 1 : given[p].stamp <= given[p + 1].stamp
  /\ \A i \in Hit(docs) :
       \/ \E p \in 1 .. Len(given) : given[p] = docs[i]
       \/ Len(given) = n /\ docs[i].stamp <= given[1].stamp

LEMMA EndOf ==
  ASSUME NEW T, NEW s \in Seq(T), NEW k \in 1 .. Len(s)
  PROVE  /\ SubSeq(s, k, Len(s)) \in Seq(T) /\ Len(SubSeq(s, k, Len(s))) = Len(s) - k + 1
         /\ \A p \in 1 .. Len(s) - k + 1 : SubSeq(s, k, Len(s))[p] = s[k + p - 1]
OBVIOUS

LEMMA NewestKept ==
  ASSUME NEW T, NEW docs \in Seq(T), \A i \in 1 .. Len(docs) : docs[i].stamp \in Int,
         NEW n \in Nat \ {0}
  PROVE  /\ NewestMatches(docs, n) \in Seq(T)
         /\ NewestOf(NewestMatches(docs, n), docs, n)
<1> DEFINE c == Cardinality(Hit(docs))
           s == Sorted(docs)
           all == [p \in 1 .. c |-> docs[s[p]]]
           kept == Newest(all, n)
           d == IF c <= n THEN 0 ELSE c - n
<1>1. /\ c \in Nat /\ s \in Seq(Hit(docs)) /\ Len(s) = c
      /\ \A p, q \in 1 .. c : p < q => EarlierLog(docs, s[p], s[q])
      /\ \A i \in Hit(docs) : \E p \in 1 .. c : s[p] = i
  BY LogsSorted
<1> HIDE DEF c, s
<1>2. DOMAIN s = 1 .. c /\ \A p \in 1 .. c : s[p] \in Hit(docs)  BY <1>1
<1>3. NewestMatches(docs, n) = kept
  <2>1. NewestMatches(docs, n) = Newest([p \in DOMAIN s |-> docs[s[p]]], n)
    BY DEF NewestMatches, Sorted, Hit, s
  <2> QED  BY <1>2, <2>1
<1>4. Hit(docs) \subseteq 1 .. Len(docs)  BY DEF Hit
<1>5. all \in Seq(T) /\ Len(all) = c
  <2> DEFINE g(p) == docs[s[p]]
  <2>1. \A p \in 1 .. c : g(p) \in T  BY <1>2, <1>4
  <2>2. all = [p \in 1 .. c |-> g(p)] /\ c \in Nat  BY <1>1
  <2> HIDE DEF g, all
  <2> QED  BY <2>1, <2>2
<1>6. \A p, q \in 1 .. c : p < q => docs[s[p]].stamp <= docs[s[q]].stamp
  <2> SUFFICES ASSUME NEW p \in 1 .. c, NEW q \in 1 .. c, p < q
               PROVE  docs[s[p]].stamp <= docs[s[q]].stamp
    OBVIOUS
  <2> DEFINE x == docs[s[p]].stamp
             y == docs[s[q]].stamp
  <2>1. s[p] \in 1 .. Len(docs) /\ s[q] \in 1 .. Len(docs)  BY <1>2, <1>4
  <2>2. x \in Int /\ y \in Int  BY <2>1
  <2>3. EarlierLog(docs, s[p], s[q])  BY <1>1
  <2>4. x < y \/ x = y  BY <2>3, Zenon DEF EarlierLog
  <2> HIDE DEF x, y
  <2>5. x <= y  BY <2>2, <2>4
  <2> QED  BY <2>5 DEF x, y
<1>7. /\ d \in 0 .. c /\ c - d <= n /\ (d > 0 => c - d = n)
  BY <1>1
<1>8. kept \in Seq(T) /\ Len(kept) = c - d /\ \A p \in 1 .. c - d : kept[p] = all[p + d]
  <2>1. CASE c <= n
    <3>1. kept = all /\ d = 0  BY <1>5, <2>1 DEF Newest
    <3> HIDE DEF kept, all, d
    <3> QED  BY <1>1, <1>5, <3>1
  <2>2. CASE ~(c <= n)
    <3>1. kept = SubSeq(all, c - n + 1, c) /\ d = c - n  BY <1>5, <2>2 DEF Newest
    <3>2. c - n + 1 \in 1 .. c /\ c - d = n /\ d \in Nat  BY <1>1, <2>2, <3>1
    <3> HIDE DEF kept, all, d
    <3> DEFINE k == c - n + 1
    <3>3. k \in 1 .. Len(all) /\ Len(all) = c /\ c - k + 1 = n
      <4>1. k \in 1 .. c /\ c - k + 1 = n  BY <1>1, <3>2
      <4>2. Len(all) = c  BY <1>5
      <4> QED  BY <4>1, <4>2
    <3>4. \A p \in 1 .. n : k + p - 1 = p + (c - n)  BY <1>1
    <3> HIDE DEF k
    <3>5. /\ SubSeq(all, k, c) \in Seq(T) /\ Len(SubSeq(all, k, c)) = c - k + 1
          /\ \A p \in 1 .. c - k + 1 : SubSeq(all, k, c)[p] = all[k + p - 1]
      BY <1>5, <3>3, EndOf
    <3>6. kept = SubSeq(all, k, c)  BY <3>1 DEF k
    <3>7. kept \in Seq(T) /\ Len(kept) = n  BY <3>3, <3>5, <3>6
    <3>8. \A p \in 1 .. n : kept[p] = all[p + d]  BY <3>1, <3>3, <3>4, <3>5, <3>6
    <3> QED  BY Zenon, <3>2, <3>7, <3>8
  <2> QED  BY <2>1, <2>2
<1> HIDE DEF kept, d
<1>9. \A p \in 1 .. c - d : p + d \in 1 .. c /\ kept[p] = docs[s[p + d]]
  <2>1. \A p \in 1 .. c - d : p + d \in 1 .. c  BY <1>1, <1>7
  <2>2. \A p \in 1 .. c : all[p] = docs[s[p]]  OBVIOUS
  <2> HIDE DEF all
  <2> QED  BY <1>8, <2>1, <2>2
<1> HIDE DEF all
<1>10. \A p \in 1 .. Len(kept) : \E i \in Hit(docs) : kept[p] = docs[i]
  BY <1>2, <1>8, <1>9
<1>11. ASSUME NEW p \in 1 .. Len(kept) - 1
       PROVE  kept[p].stamp <= kept[p + 1].stamp
  <2>1. p \in 1 .. c - d /\ p + 1 \in 1 .. c - d  BY <1>1, <1>7, <1>8
  <2>2. p + d \in 1 .. c /\ p + 1 + d \in 1 .. c /\ p + d < p + 1 + d  BY <1>7, <1>9, <2>1
  <2>3. docs[s[p + d]].stamp <= docs[s[p + 1 + d]].stamp  BY <1>6, <2>2
  <2>4. kept[p] = docs[s[p + d]] /\ kept[p + 1] = docs[s[p + 1 + d]]  BY <1>9, <2>1
  <2> QED  BY <2>3, <2>4
<1>12. ASSUME NEW i \in Hit(docs)
       PROVE  \/ \E p \in 1 .. Len(kept) : kept[p] = docs[i]
              \/ Len(kept) = n /\ docs[i].stamp <= kept[1].stamp
  <2>1. PICK q \in 1 .. c : s[q] = i  BY <1>1
  <2>2. CASE q > d
    <3>1. q - d \in 1 .. c - d /\ q - d + d = q  BY <1>1, <1>7, <2>2
    <3>2. kept[q - d] = docs[i]  BY <1>9, <2>1, <3>1
    <3> QED  BY <1>8, <3>1, <3>2
  <2>3. CASE ~(q > d)
    <3>1. d > 0 /\ c - d = n /\ 1 \in 1 .. c - d /\ q < 1 + d  BY <1>1, <1>7, <2>3
    <3>2. 1 + d \in 1 .. c /\ kept[1] = docs[s[1 + d]]  BY <1>9, <3>1
    <3>3. docs[s[q]].stamp <= docs[s[1 + d]].stamp  BY <1>6, <3>1, <3>2
    <3> QED  BY <1>8, <2>1, <3>1, <3>2, <3>3
  <2> QED  BY <2>2, <2>3
<1>13. NewestOf(kept, docs, n)  BY <1>10, <1>11, <1>12 DEF NewestOf
<1> QED  BY Zenon, <1>3, <1>8, <1>13

LEMMA NewestGiven ==
  ASSUME NEW T, NEW docs \in Seq(T), \A d \in T : d.stamp \in Int, NEW n \in Nat, n > 0,
         NEW kept, kept = NewestMatches(docs, n)
  PROVE  LET hits == {d \in Range(docs) : Matches(d)}
         IN  /\ Range(kept) \subseteq hits
             /\ \A i \in 1 .. Len(kept) - 1 : kept[i].stamp <= kept[i + 1].stamp
             /\ \A d \in hits \ Range(kept) : Len(kept) = n /\ d.stamp <= kept[1].stamp
<1> DEFINE hits == {d \in Range(docs) : Matches(d)}
<1>1. DOMAIN docs = 1 .. Len(docs) /\ \A i \in 1 .. Len(docs) : docs[i] \in T  OBVIOUS
<1>2. \A i \in 1 .. Len(docs) : docs[i].stamp \in Int  BY <1>1
<1>3. kept \in Seq(T) /\ NewestOf(kept, docs, n)
  <2>1. n \in Nat \ {0}  OBVIOUS
  <2> QED  BY Zenon, <1>2, <2>1, NewestKept
<1>4. DOMAIN kept = 1 .. Len(kept)  BY <1>3
<1>5. \A i \in Hit(docs) : docs[i] \in hits  BY DEF Hit, Range
<1>6. \A d \in hits : \E i \in Hit(docs) : d = docs[i]  BY DEF Hit, Range
<1> HIDE DEF hits
<1>7. ASSUME NEW d \in Range(kept) PROVE d \in hits
  <2>1. PICK p \in 1 .. Len(kept) : d = kept[p]  BY <1>4 DEF Range
  <2>2. PICK i \in Hit(docs) : kept[p] = docs[i]  BY <1>3 DEF NewestOf
  <2> QED  BY <1>5, <2>1, <2>2
<1>8. ASSUME NEW d \in hits, d \notin Range(kept)
      PROVE  Len(kept) = n /\ d.stamp <= kept[1].stamp
  <2>1. PICK i \in Hit(docs) : d = docs[i]  BY <1>6
  <2>2. ~\E p \in 1 .. Len(kept) : kept[p] = docs[i]  BY <1>4, <1>8, <2>1 DEF Range
  <2> QED  BY <1>3, <2>1, <2>2 DEF NewestOf
<1>9. \A i \in 1 .. Len(kept) - 1 : kept[i].stamp <= kept[i + 1].stamp  BY <1>3 DEF NewestOf
<1> QED  BY <1>7, <1>8, <1>9 DEF hits

(* A filtered read of /rosout gives the newest of what matches, however    *)
(* many messages it read and however their stamps are ordered.             *)
THEOREM ReadsGiveNewest == ReadsSpec => []FilteredIsNewest
<1>1. ReadsInv /\ HeardInv => FilteredIsNewest
  <2> DEFINE shown == <<"rosout", "not decoded">> \notin notes
  <2> SUFFICES ASSUME ReadsInv, HeardInv, phase = "done", Filtered, reading.count > 0, shown
               PROVE  FilteredIsNewest
    BY DEF FilteredIsNewest
  <2>1. /\ Part(reading.streamed, "rosout") /\ reading.count \in Nat
        /\ result = NewestMatches(reading.streamed, reading.count)
    BY DEF HeardInv, LogHeard
  <2>2. Asked /\ "rosout" \in Topics  BY DEF ReadsInv, Topics
  <2> HIDE DEF shown
  <2> DEFINE T == Range(bus["rosout"].docs)
  <2>3. reading.streamed \in Seq(T)  BY <2>1, <2>2, PartOfAll
  <2>4. \A d \in T : d.stamp \in Int  BY <2>2 DEF Asked, IsBus
  <2> HIDE DEF T
  <2>5. LET hits == {d \in Range(reading.streamed) : Matches(d)}
        IN  /\ Range(result) \subseteq hits
            /\ \A i \in 1 .. Len(result) - 1 : result[i].stamp <= result[i + 1].stamp
            /\ \A d \in hits \ Range(result) :
                 Len(result) = reading.count /\ d.stamp <= result[1].stamp
    BY <2>1, <2>3, <2>4, NewestGiven
  <2> QED  BY <2>5 DEF FilteredIsNewest
<1> QED  BY <1>1, ReadsHeard, PTL

-----------------------------------------------------------------------------
(* An edge that fell silent is told.                                       *)
LEMMA RangeFinite ==
  ASSUME NEW T, NEW s \in Seq(T) PROVE IsFiniteSet(Range(s))
<1>1. DOMAIN s = 1 .. Len(s) /\ Len(s) \in Nat  OBVIOUS
<1>2. IsFiniteSet(1 .. Len(s))  BY <1>1, UpTo
<1> DEFINE f == [i \in 1 .. Len(s) |-> s[i]]
<1>3. f \in Surjection(1 .. Len(s), Range(s))  BY <1>1 DEF Surjection, Range
<1> HIDE DEF f
<1> QED  BY <1>2, <1>3, FS_Surjection

LEMMA CaptureFinite ==
  ASSUME ReadsInv, HeardInv PROVE IsFiniteSet(Capture)
<1>1. Asked /\ "tf" \in Topics /\ "tf_static" \in Topics  BY DEF ReadsInv, Topics
<1>2. Part(static, "tf_static") /\ Part(dynamic, "tf")
  BY DEF HeardInv, ThreadHeard, WindowHeard
<1>3. ASSUME NEW t \in {"tf", "tf_static"}, NEW docs, Part(docs, t)
      PROVE  IsFiniteSet(Transforms(docs))
  <2>1. t \in Topics  BY <1>1
  <2>2. docs \in Seq(Range(bus[t].docs)) /\ Range(docs) \subseteq Range(bus[t].docs)
    BY <1>1, <1>3, <2>1, PartOfAll
  <2>3. \A d \in Range(docs) : IsFiniteSet(d.tfs)  BY <1>1, <2>2 DEF Asked, IsBus
  <2>4. IsFiniteSet(Range(docs))  BY <2>2, RangeFinite
  <2>5. IsFiniteSet({d.tfs : d \in Range(docs)})
    <3> DEFINE f == [d \in Range(docs) |-> d.tfs]
    <3>1. f \in Surjection(Range(docs), {d.tfs : d \in Range(docs)})
      BY DEF Surjection
    <3> QED  BY <2>4, <3>1, FS_Surjection
  <2>6. \A X \in {d.tfs : d \in Range(docs)} : IsFiniteSet(X)  BY <2>3
  <2> QED  BY <2>5, <2>6, FS_UNION DEF Transforms
<1>4. IsFiniteSet(Transforms(static)) /\ IsFiniteSet(Transforms(dynamic))  BY <1>2, <1>3
<1> QED  BY <1>4, FS_Union DEF Capture

LEMMA CaptureFrames ==
  ASSUME ReadsInv, HeardInv
  PROVE  \A s \in Capture : {s.parent, s.child} \subseteq Nat \ {None}
<1>1. Asked /\ "tf" \in Topics /\ "tf_static" \in Topics  BY DEF ReadsInv, Topics
<1>2. Part(static, "tf_static") /\ Part(dynamic, "tf")
  BY DEF HeardInv, ThreadHeard, WindowHeard
<1>3. ASSUME NEW t \in {"tf", "tf_static"}, NEW docs, Part(docs, t),
             NEW s \in Transforms(docs)
      PROVE  {s.parent, s.child} \subseteq Nat \ {None}
  <2>1. t \in Topics  BY <1>1
  <2>2. Range(docs) \subseteq Range(bus[t].docs)  BY <1>1, <1>3, <2>1, PartOfAll
  <2>3. PICK d \in Range(bus[t].docs) : s \in d.tfs  BY <1>3, <2>2 DEF Transforms
  <2> QED  BY <1>1, <1>3, <2>3, Zenon DEF Asked, IsBus
<1> QED  BY <1>2, <1>3 DEF Capture

LEMMA TwoOrMore ==
  ASSUME NEW S, IsFiniteSet(S), NEW a \in S, NEW b \in S, a # b
  PROVE  Cardinality(S) \in Nat /\ Cardinality(S) > 1
<1>1. IsFiniteSet(S \ {a}) /\ Cardinality(S \ {a}) = Cardinality(S) - 1
  BY FS_RemoveElement
<1>2. Cardinality(S \ {a}) # 0  BY <1>1, FS_EmptySet
<1>3. Cardinality(S) \in Nat /\ Cardinality(S \ {a}) \in Nat  BY <1>1, FS_CardinalityType
<1> QED  BY <1>1, <1>2, <1>3

LEMMA InOrderFollows ==
  ASSUME NEW S, IsFiniteSet(S), NEW c PROVE (<<c>> \o InOrder(S))[1] = c
<1> DEFINE n == Cardinality(S)
           s == InOrder(S)
<1>1. n \in Nat  BY FS_CardinalityType
<1>2. \E T : s \in Seq(T)
  <2> DEFINE Before == [x \in S |-> {y \in S : y < x}]
             at(k) == CHOOSE x \in S : Cardinality(Before[x]) = k - 1
             T == {at(k) : k \in 1 .. n}
  <2>1. s = [k \in 1 .. n |-> at(k)]  BY Zenon DEF InOrder, SortedBy
  <2> HIDE DEF at, n, s
  <2>2. s \in Seq(T)  BY <1>1, <2>1
  <2> QED  BY <2>2
<1>3. PICK T : s \in Seq(T)  BY <1>2
<1> HIDE DEF s
<1>4. (<<c>> \o s)[1] = c
  <2>1. s \in Seq(T \cup {c}) /\ <<c>> \in Seq(T \cup {c}) /\ Len(s) \in Nat  BY <1>3
  <2> QED  BY <2>1
<1> QED  BY <1>4 DEF s

(* Of the edges of a child with one parent only one can be the latest.     *)
LEMMA OnlyParent ==
  ASSUME NEW capture, NEW s \in capture,
         \A p \in ParentsOf(Edges(capture), s.child) : p = s.parent
  PROVE  /\ s.child \in DOMAIN Chosen(capture)
         /\ Chosen(capture)[s.child] = s.parent
<1> DEFINE e == <<s.parent, s.child>>
           E == Edges(capture)
<1>1. e \in E /\ e[1] = s.parent /\ e[2] = s.child  BY DEF Edges
<1>2. ASSUME NEW f \in E, f[2] = s.child PROVE f = e
  <2>1. PICK x \in capture : f = <<x.parent, x.child>>  BY DEF Edges
  <2>2. f[1] \in ParentsOf(E, s.child)  BY <1>2 DEF ParentsOf
  <2>3. f[1] = x.parent /\ f[2] = x.child  BY <2>1
  <2>4. f[1] = s.parent  BY <2>2
  <2> QED  BY <1>2, <2>1, <2>3, <2>4
<1> HIDE DEF e, E
<1>3. LatestEdge(capture, s.child) = e
  <2>1. \E f \in E : f[2] = s.child /\ \A g \in E : g[2] = s.child /\ g # f => Later(capture, f, g)
    BY <1>1, <1>2
  <2>2. LatestEdge(capture, s.child) \in E /\ LatestEdge(capture, s.child)[2] = s.child
    BY <2>1 DEF LatestEdge, E
  <2> QED  BY <1>2, <2>2
<1>4. s.child \in Children(E)  BY <1>1 DEF Children
<1> QED  BY <1>1, <1>3, <1>4 DEF Chosen, E

LEMMA SilentEdge ==
  ASSUME NEW capture, IsFiniteSet(capture), NEW s \in capture, ~s.static, NEW staleAfter,
         NEW src, NEW dst, NEW links,
         Reference(capture) - MaxOf(Stamps(Dynamic(capture, <<s.parent, s.child>>))) > staleAfter
  PROVE  LET said == BuildTfReport(capture, staleAfter, src, dst, links).findings
         IN  \/ Finding("stale", <<s.parent, s.child>>) \in said
             \/ \E f \in said : f.kind = "two_parents" /\ f.frames[1] = s.child
<1> DEFINE E == Edges(capture)
           e == <<s.parent, s.child>>
           P == ParentsOf(E, s.child)
           said == BuildTfReport(capture, staleAfter, src, dst, links).findings
<1>1. StaleFindings(capture, staleAfter) \subseteq said /\ TwoParentFindings(E) \subseteq said
  BY DEF BuildTfReport
<1> HIDE DEF said
<1>2. ASSUME \A p \in P : p = s.parent
      PROVE  Finding("stale", e) \in said
  <2>1. s.child \in DOMAIN Chosen(capture) /\ Chosen(capture)[s.child] = s.parent
    BY <1>2, OnlyParent
  <2>2. s \in Dynamic(capture, e)  BY DEF Dynamic, Samples
  <2>3. Stale(capture, s.child, staleAfter)
    <3>1. Dynamic(capture, e) # {}  BY <2>2
    <3> QED  BY <2>1, <3>1, Zenon DEF Stale
  <2>4. Finding("stale", <<Chosen(capture)[s.child], s.child>>)
          \in StaleFindings(capture, staleAfter)
    BY <2>1, <2>3 DEF StaleFindings
  <2> QED  BY <1>1, <2>1, <2>4
<1>3. ASSUME NEW q \in P, q # s.parent
      PROVE  \E f \in said : f.kind = "two_parents" /\ f.frames[1] = s.child
  <2>1. e \in E /\ e[2] = s.child /\ e[1] = s.parent  BY DEF Edges
  <2>2. s.parent \in P /\ s.child \in Children(E)  BY <2>1 DEF ParentsOf, Children
  <2>3. IsFiniteSet(P)
    <3> DEFINE f == [x \in {y \in capture : y.child = s.child} |-> x.parent]
    <3>1. ASSUME NEW p \in P PROVE \E x \in capture : x.child = s.child /\ x.parent = p
      <4>1. PICK g \in E : g[2] = s.child /\ p = g[1]  BY DEF ParentsOf
      <4>2. PICK x \in capture : g = <<x.parent, x.child>>  BY DEF Edges
      <4> QED  BY <4>1, <4>2
    <3>2. P \subseteq {f[x] : x \in DOMAIN f}  BY <3>1
    <3>3. IsFiniteSet(DOMAIN f)  BY FS_Subset
    <3>4. f \in Surjection(DOMAIN f, {f[x] : x \in DOMAIN f})  BY DEF Surjection
    <3> HIDE DEF f, P
    <3> QED  BY <3>2, <3>3, <3>4, FS_Surjection, FS_Subset
  <2> DEFINE found == Finding("two_parents", <<s.child>> \o InOrder(P))
  <2>4. Cardinality(P) > 1  BY <1>3, <2>2, <2>3, TwoOrMore
  <2>5. found \in TwoParentFindings(E)  BY <2>2, <2>4 DEF TwoParentFindings
  <2>6. found.kind = "two_parents" /\ found.frames = <<s.child>> \o InOrder(P)  BY DEF Finding
  <2>7. found.frames[1] = s.child  BY <2>3, <2>6, InOrderFollows
  <2> HIDE DEF found
  <2> QED  BY <1>1, <2>5, <2>6, <2>7
<1> QED  BY Zenon, <1>2, <1>3 DEF said

-----------------------------------------------------------------------------
(* The shape of the tree, and the cycles in it.                            *)

(* What holds at the start and is handed on holds all the way.             *)
LEMMA HandedOn ==
  ASSUME NEW N \in Nat, NEW H, 0 \in H, \A n \in 1 .. N : n - 1 \in H => n \in H
  PROVE  \A n \in 0 .. N : n \in H
<1> DEFINE Lost == {n \in 0 .. N : n \notin H}
<1> SUFFICES ASSUME Lost # {} PROVE FALSE  OBVIOUS
<1>0. Lost \in SUBSET Nat  OBVIOUS
<1>1. PICK x \in Lost : \A y \in Lost : x <= y
  <2> HIDE DEF Lost
  <2> QED  BY <1>0, LeastElement
<1>2. x # 0 /\ x \in 1 .. N /\ x - 1 \in 0 .. N /\ x - 1 \notin Lost  BY <1>1
<1> QED  BY <1>1, <1>2

(* A walk goes from each frame to its parent and has been at none before,  *)
(* but perhaps at the last.                                                *)
OnTheWay(F, chosen, w) ==
  /\ w \in Seq(F) /\ Len(w) > 0
  /\ \A i \in 1 .. Len(w) - 1 : w[i] \in DOMAIN chosen /\ w[i + 1] = chosen[w[i]]
  /\ \A i, j \in 1 .. Len(w) - 1 : w[i] = w[j] => i = j

AtItsEnd(chosen, w) == GoesRound(w) \/ Last(w) \notin DOMAIN chosen

LEMMA FrontOf ==
  ASSUME NEW F, NEW w \in Seq(F), Len(w) > 0
  PROVE  /\ Last(w) = w[Len(w)] /\ Last(w) \in F
         /\ \A x : x \in Range(Front(w)) <=> \E i \in 1 .. Len(w) - 1 : w[i] = x
<1>1. Last(w) = w[Len(w)] /\ Front(w) = SubSeq(w, 1, Len(w) - 1)  BY DEF Last, Front
<1>2. DOMAIN Front(w) = 1 .. Len(w) - 1 /\ \A i \in 1 .. Len(w) - 1 : Front(w)[i] = w[i]
  BY <1>1
<1>3. \A x : x \in Range(Front(w)) <=> \E i \in 1 .. Len(w) - 1 : w[i] = x
  BY <1>2 DEF Range
<1> QED  BY <1>1, <1>3

LEMMA UpKeeps ==
  ASSUME NEW F, NEW D \in SUBSET F, NEW chosen \in [D -> F], NEW w, OnTheWay(F, chosen, w)
  PROVE  /\ OnTheWay(F, chosen, Up(chosen, w)) /\ Up(chosen, w)[1] = w[1]
         /\ IF AtItsEnd(chosen, w) THEN Up(chosen, w) = w
            ELSE Len(Up(chosen, w)) = Len(w) + 1
<1>1. CASE AtItsEnd(chosen, w)
  BY <1>1 DEF AtItsEnd, Up
<1>2. CASE ~AtItsEnd(chosen, w)
  <2> DEFINE f == w[Len(w)]
             u == Append(w, chosen[f])
  <2>1. /\ w \in Seq(F) /\ Len(w) > 0 /\ Len(w) \in Nat
        /\ \A i \in 1 .. Len(w) - 1 : w[i] \in D /\ w[i + 1] = chosen[w[i]]
        /\ \A i, j \in 1 .. Len(w) - 1 : w[i] = w[j] => i = j
    BY DEF OnTheWay
  <2>2. f \in D /\ \A i \in 1 .. Len(w) - 1 : w[i] # f
    BY <1>2, <2>1, FrontOf DEF AtItsEnd, GoesRound
  <2>3. Up(chosen, w) = u
    BY <1>2, <2>1, FrontOf DEF AtItsEnd, Up
  <2>4. chosen[f] \in F  BY <2>2
  <2>5. /\ u \in Seq(F) /\ Len(u) = Len(w) + 1 /\ u[Len(w) + 1] = chosen[f]
        /\ \A i \in 1 .. Len(w) : u[i] = w[i]
    BY <2>1, <2>4
  <2> HIDE DEF u
  <2>6. \A i \in 1 .. Len(u) - 1 : u[i] \in D /\ u[i + 1] = chosen[u[i]]
    <3> TAKE i \in 1 .. Len(u) - 1
    <3>1. CASE i = Len(w)  BY <2>1, <2>2, <2>5, <3>1
    <3>2. CASE i # Len(w)
      <4>1. i \in 1 .. Len(w) - 1 /\ i \in 1 .. Len(w) /\ i + 1 \in 1 .. Len(w)  BY <2>1, <2>5, <3>2
      <4> QED  BY <2>1, <2>5, <4>1
    <3> QED  BY <3>1, <3>2
  <2>7. \A i, j \in 1 .. Len(u) - 1 : u[i] = u[j] => i = j
    <3>1. \A i \in 1 .. Len(u) - 1 : i \in 1 .. Len(w) - 1 \/ i = Len(w)  BY <2>1, <2>5
    <3>2. \A i \in 1 .. Len(u) - 1 : u[i] = w[i]  BY <2>1, <2>5
    <3> QED  BY <2>1, <2>2, <3>1, <3>2
  <2>8. u[1] = w[1]  BY <2>1, <2>5
  <2>9. OnTheWay(F, chosen, u)  BY <2>1, <2>5, <2>6, <2>7 DEF OnTheWay
  <2> QED  BY <1>2, <2>3, <2>5, <2>8, <2>9
<1> QED  BY <1>1, <1>2

(* A walk of as many frames as have a parent comes to its end.             *)
LEMMA WalkEnds ==
  ASSUME NEW F, NEW D \in SUBSET F, IsFiniteSet(D), NEW chosen \in [D -> F], NEW start \in F
  PROVE  /\ OnTheWay(F, chosen, Walk(chosen, start))
         /\ AtItsEnd(chosen, Walk(chosen, start))
         /\ Walk(chosen, start)[1] = start
<1> DEFINE N == Cardinality(D)
           T == {w \in Seq(F) : OnTheWay(F, chosen, w) /\ w[1] = start}
           step == [n \in 1 .. N |-> [w \in T |-> Up(chosen, w)]]
           Body(f, n) == IF n = 0 THEN <<start>> ELSE Up(chosen, f[n - 1])
           walk[n \in 0 .. N] == IF n = 0 THEN <<start>> ELSE Up(chosen, walk[n - 1])
<1>0. N \in Nat  BY FS_CardinalityType
<1>1. <<start>> \in T
  <2>1. <<start>> \in Seq(F) /\ Len(<<start>>) = 1 /\ <<start>>[1] = start  OBVIOUS
  <2>2. OnTheWay(F, chosen, <<start>>)  BY <2>1 DEF OnTheWay
  <2> QED  BY <2>1, <2>2
<1>2. \A w \in T : /\ Up(chosen, w) \in T
                   /\ IF AtItsEnd(chosen, w) THEN Up(chosen, w) = w
                      ELSE Len(Up(chosen, w)) = Len(w) + 1
  <2> TAKE w \in T
  <2>1. /\ OnTheWay(F, chosen, Up(chosen, w)) /\ Up(chosen, w)[1] = start
        /\ IF AtItsEnd(chosen, w) THEN Up(chosen, w) = w
           ELSE Len(Up(chosen, w)) = Len(w) + 1
    BY UpKeeps
  <2>2. Up(chosen, w) \in Seq(F)  BY <2>1 DEF OnTheWay
  <2> QED  BY <2>1, <2>2
<1>3. Walk(chosen, start) = walk[N]
  <2>1. DOMAIN chosen = D  OBVIOUS
  <2> QED  BY <2>1 DEF Walk
<1>4. walk = CHOOSE f : f = [n \in 0 .. N |-> Body(f, n)]  OBVIOUS
<1> HIDE DEF walk
<1>5. PICK g : RunOf(N, T, <<start>>, step, g)
  <2> HIDE DEF T, N
  <2>1. step \in [1 .. N -> [T -> T]]  BY <1>2
  <2> HIDE DEF step
  <2> QED  BY <1>0, <1>1, <2>1, Recursion
<1> HIDE DEF T
<1>6. /\ g \in [0 .. N -> T] /\ g[0] = <<start>>
      /\ \A n \in 1 .. N : g[n] = Up(chosen, g[n - 1])
  <2>1. g \in [0 .. N -> T] /\ g[0] = <<start>> /\ \A n \in 1 .. N : g[n] = step[n][g[n - 1]]
    BY <1>5 DEF RunOf
  <2>2. ASSUME NEW n \in 1 .. N PROVE g[n] = Up(chosen, g[n - 1])
    <3>1. n - 1 \in 0 .. N  BY <1>0
    <3>2. g[n - 1] \in T  BY <2>1, <3>1
    <3> QED  BY <2>1, <3>2
  <2> QED  BY <2>1, <2>2
<1>7. walk = [n \in 0 .. N |-> Body(walk, n)]
  <2>1. \A n \in 0 .. N : g[n] = Body(g, n)
    <3> TAKE n \in 0 .. N
    <3>1. n = 0 \/ n \in 1 .. N  BY <1>0
    <3> QED  BY <1>0, <1>6, <3>1
  <2> HIDE DEF Body
  <2>2. g = [n \in 0 .. N |-> Body(g, n)]  BY <1>6, <2>1
  <2> QED  BY <1>4, <2>2
<1>8. walk[0] = <<start>> /\ \A n \in 1 .. N : walk[n] = Up(chosen, walk[n - 1])
  BY <1>0, <1>7
<1> DEFINE H == {n \in 0 .. N : /\ walk[n] \in T
                                /\ AtItsEnd(chosen, walk[n]) \/ Len(walk[n]) = n + 1}
<1>9. 0 \in H
  <2>1. Len(<<start>>) = 1  OBVIOUS
  <2> QED  BY <1>0, <1>1, <1>8, <2>1
<1>10. ASSUME NEW n \in 1 .. N, n - 1 \in H PROVE n \in H
  <2>1. n - 1 \in 0 .. N /\ (n - 1) + 1 = n /\ n \in 0 .. N  BY <1>0
  <2>2. walk[n] = Up(chosen, walk[n - 1])  BY <1>8
  <2>3. /\ walk[n - 1] \in T
        /\ AtItsEnd(chosen, walk[n - 1]) \/ Len(walk[n - 1]) = n
    BY <1>10, <2>1
  <2>4. walk[n] \in T  BY <1>2, <2>2, <2>3
  <2>5. AtItsEnd(chosen, walk[n]) \/ Len(walk[n]) = n + 1
    BY <1>2, <2>2, <2>3
  <2> QED  BY <2>1, <2>4, <2>5
<1>11. \A n \in 0 .. N : n \in H
  <2> HIDE DEF H
  <2> QED  BY <1>0, <1>9, <1>10, HandedOn
<1>12. PICK w : w = walk[N]  OBVIOUS
<1>13. w \in T /\ (AtItsEnd(chosen, w) \/ Len(w) = N + 1)
  <2>1. N \in H  BY <1>0, <1>11
  <2> QED  BY <1>12, <2>1
<1>14. OnTheWay(F, chosen, w) /\ w[1] = start  BY <1>13 DEF T
<1>15. AtItsEnd(chosen, w)
  <2> SUFFICES ASSUME ~AtItsEnd(chosen, w), Len(w) = N + 1 PROVE FALSE  BY <1>13
  <2>1. /\ w \in Seq(F)
        /\ \A i \in 1 .. N : w[i] \in D
        /\ \A i, j \in 1 .. N : w[i] = w[j] => i = j
    BY <1>0, <1>14 DEF OnTheWay
  <2>2. w[N + 1] \in D /\ \A i \in 1 .. N : w[i] # w[N + 1]
    <3>1. Len(w) > 0  BY <1>0
    <3>2. /\ Last(w) = w[Len(w)]
          /\ \A x : x \in Range(Front(w)) <=> \E i \in 1 .. Len(w) - 1 : w[i] = x
      BY <2>1, <3>1, FrontOf
    <3>3. Last(w) \in D /\ Last(w) \notin Range(Front(w))  BY DEF AtItsEnd, GoesRound
    <3>4. Last(w) = w[N + 1] /\ Len(w) - 1 = N  BY <1>0, <3>2
    <3> QED  BY <3>2, <3>3, <3>4
  <2>3. \A i \in 1 .. N + 1 : i \in 1 .. N \/ i = N + 1  BY <1>0
  <2> DEFINE h == [i \in 1 .. N + 1 |-> w[i]]
  <2>4. h \in [1 .. N + 1 -> D]  BY <2>1, <2>2, <2>3
  <2>5. IsFiniteSet(1 .. N + 1) /\ Cardinality(1 .. N + 1) = N + 1  BY <1>0, UpTo
  <2>6. PICK i, j \in 1 .. N + 1 : i # j /\ h[i] = h[j]
    <3> HIDE DEF h
    <3>1. N < N + 1  BY <1>0
    <3> QED  BY <2>4, <2>5, <3>1, FS_PigeonHole
  <2>7. w[i] = w[j]  BY <2>6
  <2> QED  BY <2>1, <2>2, <2>3, <2>6, <2>7
<1> QED  BY <1>3, <1>12, <1>14, <1>15

(* The edges below S, and what hangs from a frame.                         *)
Below(edges, S) == {e[2] : e \in {x \in edges : x[1] \in S}}
HangsFrom(edges, r) ==
  \A S \in SUBSET Names(edges) : r \in S /\ Below(edges, S) \subseteq S => S = Names(edges)
OneParent(edges) == \A c \in Children(edges) : Cardinality(ParentsOf(edges, c)) = 1

(* Every child has the parent that is chosen for it.                       *)
ChosenOf(edges, chosen) ==
  /\ chosen \in [Children(edges) -> Names(edges)]
  /\ \A e \in edges : e[2] \in Children(edges) /\ chosen[e[2]] = e[1]
  /\ IsFiniteSet(Names(edges))

LEMMA TreeHasNoRound ==
  ASSUME NEW edges, NEW chosen, ChosenOf(edges, chosen), NEW f \in Children(edges),
         GoesRound(Walk(chosen, f)), NEW r \in Names(edges), Roots(edges) = {r},
         HangsFrom(edges, r)
  PROVE  FALSE
<1> DEFINE F == Names(edges)
           D == Children(edges)
           w == Walk(chosen, f)
           R == Range(Front(w))
<1>1. D \subseteq F /\ f \in F /\ IsFiniteSet(D)
  <2>1. D \subseteq F  BY DEF Names
  <2> QED  BY <2>1, FS_Subset DEF ChosenOf
<1>2. OnTheWay(F, chosen, w)
  <2>1. D \in SUBSET F /\ chosen \in [D -> F]  BY <1>1 DEF ChosenOf
  <2> HIDE DEF F, D
  <2> QED  BY <1>1, <2>1, WalkEnds
<1> HIDE DEF w
<1>3. /\ w \in Seq(F) /\ Len(w) > 0 /\ Len(w) \in Nat /\ DOMAIN chosen = D
      /\ \A i \in 1 .. Len(w) - 1 : w[i] \in D /\ w[i + 1] = chosen[w[i]]
  BY <1>2 DEF OnTheWay, ChosenOf
<1>4. /\ Last(w) = w[Len(w)]
      /\ \A x : x \in R <=> \E i \in 1 .. Len(w) - 1 : w[i] = x
  <2> HIDE DEF F
  <2> QED  BY <1>3, FrontOf
<1>5. Last(w) \in R  BY DEF GoesRound, w
<1> HIDE DEF R
<1>6. \A x \in R : x \in D /\ chosen[x] \in R
  <2> TAKE x \in R
  <2>1. PICK i \in 1 .. Len(w) - 1 : w[i] = x  BY <1>4
  <2>2. x \in D /\ w[i + 1] = chosen[x]  BY <1>3, <2>1
  <2>3. i + 1 = Len(w) \/ i + 1 \in 1 .. Len(w) - 1  BY <1>3
  <2>4. w[i + 1] \in R  BY <1>4, <1>5, <2>3
  <2> QED  BY <2>2, <2>4
<1>7. r \in F \ R
  <2>1. r \notin D  BY DEF Roots
  <2> QED  BY <1>6, <2>1
<1>8. Below(edges, F \ R) \subseteq F \ R
  <2> SUFFICES ASSUME NEW e \in edges, e[1] \in F \ R PROVE e[2] \in F \ R
    BY DEF Below
  <2>1. e[2] \in D /\ chosen[e[2]] = e[1]  BY DEF ChosenOf
  <2> QED  BY <1>1, <1>6, <2>1
<1>9. F \ R = F  BY <1>7, <1>8 DEF HangsFrom
<1> QED  BY <1>1, <1>5, <1>6, <1>9

LEMMA RoundIsWalked ==
  ASSUME NEW edges, NEW chosen, ChosenOf(edges, chosen), NEW S, Roots(edges) \subseteq S,
         Below(edges, S) \subseteq S, NEW f \in Names(edges), f \notin S
  PROVE  f \in Children(edges) /\ GoesRound(Walk(chosen, f))
<1> DEFINE F == Names(edges)
           D == Children(edges)
           w == Walk(chosen, f)
<1>1. D \subseteq F /\ IsFiniteSet(D)
  <2>1. D \subseteq F  BY DEF Names
  <2> QED  BY <2>1, FS_Subset DEF ChosenOf
<1>2. OnTheWay(F, chosen, w) /\ AtItsEnd(chosen, w) /\ w[1] = f
  <2>1. D \in SUBSET F /\ chosen \in [D -> F]  BY <1>1 DEF ChosenOf
  <2>2. f \in F  OBVIOUS
  <2> HIDE DEF F, D
  <2> QED  BY <1>1, <2>1, <2>2, WalkEnds
<1> HIDE DEF w
<1>3. /\ w \in Seq(F) /\ Len(w) > 0 /\ Len(w) \in Nat /\ DOMAIN chosen = D
      /\ \A i \in 1 .. Len(w) - 1 : w[i] \in D /\ w[i + 1] = chosen[w[i]]
  BY <1>2 DEF OnTheWay, ChosenOf
<1>4. \A x \in F \ S : x \in D
  BY DEF Roots
<1>5. \A x \in D \ S : chosen[x] \notin S
  <2> SUFFICES ASSUME NEW x \in D \ S, chosen[x] \in S PROVE FALSE  OBVIOUS
  <2>1. PICK e \in edges : e[2] = x  BY DEF Children
  <2>2. e[1] = chosen[x]  BY <2>1 DEF ChosenOf
  <2> QED  BY <2>1, <2>2 DEF Below
<1> DEFINE H == {n \in 0 .. Len(w) - 1 : w[n + 1] \notin S}
<1>6. \A n \in 0 .. Len(w) - 1 : n \in H
  <2> DEFINE N == Len(w) - 1
  <2>1. N \in Nat /\ 0 \in H  BY <1>2, <1>3
  <2>2. ASSUME NEW n \in 1 .. N, n - 1 \in H PROVE n \in H
    <3>1. n \in 1 .. Len(w) - 1 /\ (n - 1) + 1 = n /\ n \in 0 .. Len(w) - 1  BY <1>3
    <3>2. w[n] \notin S  BY <2>2, <3>1
    <3>3. w[n] \in D /\ w[n + 1] = chosen[w[n]]  BY <1>3, <3>1
    <3> QED  BY <1>5, <3>1, <3>2, <3>3
  <2> HIDE DEF H
  <2>3. \A n \in 0 .. N : n \in H
    <3> HIDE DEF N
    <3> QED  BY <2>1, <2>2, HandedOn
  <2> QED  BY <2>3
<1>7. Last(w) = w[Len(w)] /\ Last(w) \in F
  <2> HIDE DEF F
  <2> QED  BY <1>3, FrontOf
<1>8. Last(w) \notin S
  <2>1. Len(w) - 1 \in 0 .. Len(w) - 1 /\ (Len(w) - 1) + 1 = Len(w)  BY <1>3
  <2>2. w[(Len(w) - 1) + 1] \notin S  BY <1>6, <2>1
  <2> QED  BY <1>7, <2>1, <2>2
<1>9. GoesRound(w)  BY <1>2, <1>3, <1>4, <1>7, <1>8 DEF AtItsEnd
<1> QED  BY <1>4, <1>9 DEF w

(* The findings of a report, by their kind.                                *)
LEMMA FoundByKind ==
  ASSUME NEW capture, NEW staleAfter, NEW src, NEW dst, NEW links
  PROVE  LET edges == Edges(capture)
             said == BuildTfReport(capture, staleAfter, src, dst, links).findings
             has(kind) == \E f \in said : f.kind = kind
         IN  /\ has("two_parents") <=> TwoParentFindings(edges) # {}
             /\ has("disconnected") <=> DisconnectedFindings(edges) # {}
             /\ has("cycle") <=> CycleFindings(Chosen(capture)) # {}
             /\ has("no_path") <=> NoPathFindings(edges, src, dst) # {}
<1> DEFINE edges == Edges(capture)
           said == BuildTfReport(capture, staleAfter, src, dst, links).findings
           A == StaleFindings(capture, staleAfter)
           B == TwoParentFindings(edges)
           C == StaticDynamicFindings(capture)
           D == DisconnectedFindings(edges)
           E == CycleFindings(Chosen(capture))
           G == NoPathFindings(edges, src, dst)
           H == DeclaredFindings(links, Names(edges))
<1>1. said = A \cup B \cup C \cup D \cup E \cup G \cup H  BY DEF BuildTfReport
<1>2. \A kind, frames : Finding(kind, frames).kind = kind  BY DEF Finding
<1>3. \A f \in A : f.kind = "stale"  BY <1>2 DEF StaleFindings
<1>4. \A f \in B : f.kind = "two_parents"  BY <1>2 DEF TwoParentFindings
<1>5. \A f \in C : f.kind = "static_and_dynamic"  BY <1>2 DEF StaticDynamicFindings
<1>6. \A f \in D : f.kind = "disconnected"  BY <1>2 DEF DisconnectedFindings
<1>7. \A f \in E : f.kind = "cycle"  BY <1>2 DEF CycleFindings
<1>8. \A f \in G : f.kind = "no_path"  BY <1>2 DEF NoPathFindings
<1>9. \A f \in H : f.kind = "declared_not_published"  BY <1>2 DEF DeclaredFindings
<1> HIDE DEF said, A, B, C, D, E, G, H
<1>10. /\ (\E f \in said : f.kind = "two_parents") <=> B # {}
       /\ (\E f \in said : f.kind = "disconnected") <=> D # {}
       /\ (\E f \in said : f.kind = "cycle") <=> E # {}
       /\ (\E f \in said : f.kind = "no_path") <=> G # {}
  BY <1>1, <1>3, <1>4, <1>5, <1>6, <1>7, <1>8, <1>9
<1> QED  BY <1>10, Zenon DEF said, B, D, E, G, edges

(* A finite set of edges between frames.                                   *)
Drawn(edges) ==
  /\ IsFiniteSet(edges) /\ \A e \in edges : e = <<e[1], e[2]>>
  /\ Names(edges) \subseteq Nat \ {None}

LEMMA DrawnFinite ==
  ASSUME NEW edges, Drawn(edges)
  PROVE  /\ IsFiniteSet(Names(edges)) /\ IsFiniteSet(Children(edges))
         /\ IsFiniteSet(Roots(edges)) /\ \A c : IsFiniteSet(ParentsOf(edges, c))
<1> DEFINE P == {e[1] : e \in edges}
<1>1. IsFiniteSet(P)
  <2> DEFINE f == [e \in edges |-> e[1]]
  <2>1. f \in Surjection(edges, P)  BY DEF Surjection
  <2> QED  BY <2>1, FS_Surjection DEF Drawn
<1>2. IsFiniteSet(Children(edges))
  <2> DEFINE f == [e \in edges |-> e[2]]
  <2>1. f \in Surjection(edges, Children(edges))  BY DEF Surjection, Children
  <2> QED  BY <2>1, FS_Surjection DEF Drawn
<1>3. Names(edges) = P \cup Children(edges)  BY DEF Names
<1> HIDE DEF P
<1>4. IsFiniteSet(Names(edges))  BY <1>1, <1>2, <1>3, FS_Union
<1>5. Roots(edges) \subseteq Names(edges)  BY DEF Roots
<1>6. IsFiniteSet(Roots(edges))  BY <1>4, <1>5, FS_Subset
<1>7. ASSUME NEW c PROVE IsFiniteSet(ParentsOf(edges, c))
  <2>1. ParentsOf(edges, c) \subseteq P  BY DEF ParentsOf, P
  <2> QED  BY <1>1, <2>1, FS_Subset
<1> QED  BY <1>2, <1>4, <1>6, <1>7

LEMMA OnlyOne ==
  ASSUME NEW S, IsFiniteSet(S), Cardinality(S) <= 1, NEW a \in S, NEW b \in S
  PROVE  a = b
<1> SUFFICES ASSUME a # b PROVE FALSE  OBVIOUS
<1>1. Cardinality(S) \in Nat /\ Cardinality(S) > 1  BY TwoOrMore
<1> QED  BY <1>1

(* Of frames that have one parent each, that is the one chosen.            *)
LEMMA ChosenIsParent ==
  ASSUME NEW capture, Drawn(Edges(capture)), OneParent(Edges(capture))
  PROVE  ChosenOf(Edges(capture), Chosen(capture))
<1> DEFINE E == Edges(capture)
           chosen == Chosen(capture)
<1>1. IsFiniteSet(Names(E)) /\ \A c : IsFiniteSet(ParentsOf(E, c))  BY DrawnFinite
<1>2. ASSUME NEW e \in E PROVE e[2] \in Children(E) /\ chosen[e[2]] = e[1]
  <2>1. PICK s \in capture : e = <<s.parent, s.child>>  BY DEF Edges
  <2>2. e[1] = s.parent /\ e[2] = s.child  BY <2>1
  <2> DEFINE P == ParentsOf(E, s.child)
  <2>3. s.parent \in P /\ s.child \in Children(E)  BY <2>2 DEF ParentsOf, Children
  <2>4. IsFiniteSet(P) /\ Cardinality(P) <= 1  BY <1>1, <2>3 DEF OneParent
  <2>5. \A p \in P : p = s.parent
    <3> HIDE DEF P
    <3> QED  BY <2>3, <2>4, OnlyOne
  <2>6. chosen[s.child] = s.parent  BY <2>5, OnlyParent
  <2> QED  BY <2>2, <2>3, <2>6
<1>3. chosen \in [Children(E) -> Names(E)]
  <2>1. chosen = [c \in Children(E) |-> LatestEdge(capture, c)[1]]  BY DEF Chosen
  <2>2. ASSUME NEW c \in Children(E) PROVE chosen[c] \in Names(E)
    <3>1. PICK e \in E : e[2] = c  BY DEF Children
    <3>2. chosen[c] = e[1]  BY <1>2, <3>1
    <3> QED  BY <3>2 DEF Names
  <2> HIDE DEF chosen
  <2>3. DOMAIN chosen = Children(E) /\ chosen = [c \in Children(E) |-> chosen[c]]
    BY <2>1
  <2> QED  BY <2>2, <2>3
<1> QED  BY <1>1, <1>2, <1>3 DEF ChosenOf

LEMMA ShapeIsTold ==
  ASSUME NEW capture, Drawn(Edges(capture))
  PROVE  LET edges == Edges(capture)
         IN  (\/ TwoParentFindings(edges) # {}
              \/ DisconnectedFindings(edges) # {}
              \/ CycleFindings(Chosen(capture)) # {})
               <=> /\ edges # {}
                   /\ ~\E r \in Names(edges) :
                         Roots(edges) = {r} /\ HangsFrom(edges, r) /\ OneParent(edges)
<1> DEFINE E == Edges(capture)
           chosen == Chosen(capture)
           fine == \E r \in Names(E) : Roots(E) = {r} /\ HangsFrom(E, r) /\ OneParent(E)
           alarmed == \/ TwoParentFindings(E) # {}
                      \/ DisconnectedFindings(E) # {}
                      \/ CycleFindings(chosen) # {}
<1>1. /\ IsFiniteSet(Names(E)) /\ IsFiniteSet(Children(E)) /\ IsFiniteSet(Roots(E))
      /\ \A c : IsFiniteSet(ParentsOf(E, c))
  BY DrawnFinite
<1>2. TwoParentFindings(E) # {} <=> ~OneParent(E)
  <2>1. \A c \in Children(E) : Cardinality(ParentsOf(E, c)) \in Nat
                               /\ Cardinality(ParentsOf(E, c)) # 0
    <3> TAKE c \in Children(E)
    <3>1. PICK e \in E : e[2] = c  BY DEF Children
    <3>2. e[1] \in ParentsOf(E, c)  BY <3>1 DEF ParentsOf
    <3>3. IsFiniteSet(ParentsOf(E, c))  BY <1>1
    <3> QED  BY <3>2, <3>3, FS_EmptySet, FS_CardinalityType
  <2>2. \A c \in Children(E) :
          Cardinality(ParentsOf(E, c)) > 1 <=> Cardinality(ParentsOf(E, c)) # 1
    BY <2>1
  <2>3. TwoParentFindings(E) # {} <=> \E c \in Children(E) : Cardinality(ParentsOf(E, c)) > 1
    BY DEF TwoParentFindings
  <2> QED  BY <2>2, <2>3 DEF OneParent
<1>3. DisconnectedFindings(E) # {} <=> Cardinality(Roots(E)) >= 2
  <2>1. Cardinality(Roots(E)) \in Nat  BY <1>1, FS_CardinalityType
  <2> QED  BY <2>1 DEF DisconnectedFindings
<1>4. CycleFindings(chosen) # {} <=> \E f \in DOMAIN chosen : GoesRound(Walk(chosen, f))
  BY DEF CycleFindings
<1>5. DOMAIN chosen = Children(E)  BY DEF Chosen
<1>6. OneParent(E) => ChosenOf(E, chosen)  BY ChosenIsParent
<1> HIDE DEF chosen, E
<1>7. ASSUME alarmed PROVE E # {} /\ ~fine
  <2>1. CASE ~OneParent(E)
    <3>1. Children(E) # {}  BY <2>1 DEF OneParent
    <3>2. E # {}  BY <3>1 DEF Children
    <3> QED  BY <2>1, <3>2
  <2>2. CASE OneParent(E) /\ DisconnectedFindings(E) # {}
    <3>1. Cardinality(Roots(E)) >= 2  BY <1>3, <2>2
    <3>2. \A r : Roots(E) # {r}
      <4> SUFFICES ASSUME NEW r, Roots(E) = {r} PROVE FALSE  OBVIOUS
      <4>1. Cardinality(Roots(E)) = 1  BY FS_Singleton
      <4> QED  BY <3>1, <4>1
    <3>3. E # {}
      <4> SUFFICES ASSUME E = {} PROVE FALSE  OBVIOUS
      <4>1. Roots(E) = {}  BY DEF Roots, Names, Children
      <4>2. Cardinality(Roots(E)) = 0  BY <4>1, FS_EmptySet
      <4> QED  BY <3>1, <4>2
    <3> QED  BY <3>2, <3>3
  <2>3. CASE OneParent(E) /\ CycleFindings(chosen) # {}
    <3>1. PICK f \in Children(E) : GoesRound(Walk(chosen, f))  BY <1>4, <1>5, <2>3
    <3>2. E # {}  BY <3>1 DEF Children
    <3>3. ~fine
      <4> SUFFICES ASSUME NEW r \in Names(E), Roots(E) = {r}, HangsFrom(E, r) PROVE FALSE
        OBVIOUS
      <4>1. ChosenOf(E, chosen)  BY <1>6, <2>3
      <4> QED  BY <3>1, <4>1, TreeHasNoRound
    <3> QED  BY <3>2, <3>3
  <2> QED  BY <1>2, <1>7, <2>1, <2>2, <2>3
<1>8. ASSUME E # {}, ~fine, ~alarmed PROVE FALSE
  <2>1. OneParent(E) /\ ~(Cardinality(Roots(E)) >= 2)  BY <1>2, <1>3, <1>8
  <2>2. ChosenOf(E, chosen)  BY <1>6, <2>1
  <2>3. Cardinality(Roots(E)) \in Nat  BY <1>1, FS_CardinalityType
  <2>4. ~\E f \in Children(E) : GoesRound(Walk(chosen, f))  BY <1>4, <1>5, <1>8
  <2>5. \E S : Roots(E) \subseteq S /\ Below(E, S) \subseteq S /\ \E f \in Names(E) : f \notin S
    <3>1. CASE Roots(E) = {}
      <4>1. PICK e \in E : TRUE  BY <1>8
      <4>2. e[1] \in Names(E)  BY DEF Names
      <4>3. Below(E, {}) = {}  BY DEF Below
      <4> QED  BY <3>1, <4>2, <4>3
    <3>2. CASE Roots(E) # {}
      <4>1. PICK r : r \in Roots(E)  BY <3>2
      <4>2. Cardinality(Roots(E)) <= 1  BY <2>1, <2>3
      <4>3. \A x \in Roots(E) : x = r
        <5> DEFINE R == Roots(E)
        <5>1. IsFiniteSet(R) /\ Cardinality(R) <= 1 /\ r \in R  BY <1>1, <4>1, <4>2
        <5> HIDE DEF R
        <5>2. \A x \in R : x = r  BY <5>1, OnlyOne
        <5> QED  BY <5>2 DEF R
      <4>4. Roots(E) = {r} /\ r \in Names(E)  BY <4>1, <4>3 DEF Roots
      <4>5. ~HangsFrom(E, r)  BY <1>8, <2>1, <4>4
      <4> QED  BY <4>4, <4>5 DEF HangsFrom
    <3> QED  BY <3>1, <3>2
  <2>6. PICK S, f : /\ Roots(E) \subseteq S /\ Below(E, S) \subseteq S
                    /\ f \in Names(E) /\ f \notin S
    BY <2>5
  <2>7. f \in Children(E) /\ GoesRound(Walk(chosen, f))  BY <2>2, <2>6, RoundIsWalked
  <2> QED  BY <2>4, <2>7
<1>9. alarmed <=> E # {} /\ ~fine
  <2> HIDE DEF alarmed, fine
  <2> QED  BY <1>7, <1>8
<1> QED  BY <1>9 DEF E, chosen

-----------------------------------------------------------------------------
(* What comes before each element of S, in an order of S.                  *)
Arranged(S, Earlier) ==
  /\ \A x \in S : Earlier[x] \subseteq S \ {x}
  /\ \A x, y \in S : x # y => x \in Earlier[y] \/ y \in Earlier[x]
  /\ \A x, y \in S : x \in Earlier[y] => Earlier[x] \subseteq Earlier[y]

LEMMA HasAll ==
  ASSUME NEW S, IsFiniteSet(S), NEW Earlier, Arranged(S, Earlier)
  PROVE  \A x \in S : \E i \in 1 .. Cardinality(S) : SortedBy(S, Earlier)[i] = x
<1>1. \A x \in S : Earlier[x] \subseteq S \ {x}  BY DEF Arranged
<1>2. \A x, y \in S : x # y => x \in Earlier[y] \/ y \in Earlier[x]  BY DEF Arranged
<1>3. \A x, y \in S : x \in Earlier[y] => Earlier[x] \subseteq Earlier[y]  BY DEF Arranged
<1> QED  BY <1>1, <1>2, <1>3, SortedInPlace

(* The frames of a set in order, each once.                                *)
LEMMA InOrderAll ==
  ASSUME NEW S \in SUBSET Nat, IsFiniteSet(S)
  PROVE  /\ InOrder(S) \in Seq(S) /\ Len(InOrder(S)) = Cardinality(S) /\ Cardinality(S) \in Nat
         /\ \A x \in S : \E i \in 1 .. Len(InOrder(S)) : InOrder(S)[i] = x
<1> DEFINE Lesser == [x \in S |-> {y \in S : y < x}]
<1>1. /\ \A x \in S : Lesser[x] \subseteq S \ {x}
      /\ \A x, y \in S : x # y => x \in Lesser[y] \/ y \in Lesser[x]
      /\ \A x, y \in S : x \in Lesser[y] => Lesser[x] \subseteq Lesser[y]
  <2>1. \A x, y \in S : x \in Int /\ y \in Int  OBVIOUS
  <2>2. \A x \in S : Lesser[x] \subseteq S \ {x}  BY <2>1
  <2>3. \A x, y \in S : x # y => x < y \/ y < x  BY <2>1
  <2>4. \A x, y \in S : x \in Lesser[y] <=> x < y  OBVIOUS
  <2>5. \A x, y, z \in S : x < y /\ y < z => x < z  BY <2>1
  <2>6. \A x, y \in S : x \in Lesser[y] => Lesser[x] \subseteq Lesser[y]
    <3> SUFFICES ASSUME NEW x \in S, NEW y \in S, x < y, NEW z \in Lesser[x]
                 PROVE  z \in Lesser[y]
      BY <2>4
    <3> QED  BY <2>5
  <2> QED  BY <2>2, <2>3, <2>4, <2>6
<1>2. InOrder(S) = SortedBy(S, Lesser)  BY DEF InOrder
<1> HIDE DEF Lesser
<1>3. /\ SortedBy(S, Lesser) \in Seq(S) /\ Len(SortedBy(S, Lesser)) = Cardinality(S)
      /\ Cardinality(S) \in Nat
  BY <1>1, OrderedIn
<1>4. \A x \in S : \E i \in 1 .. Cardinality(S) : SortedBy(S, Lesser)[i] = x
  <2>1. Arranged(S, Lesser)  BY <1>1, Zenon DEF Arranged
  <2> QED  BY <2>1, HasAll
<1> QED  BY <1>2, <1>3, <1>4

(* The search, with the distance of every frame it came to.  A frame that  *)
(* has left the queue is done: it is not the one looked for, and the       *)
(* search came to all its neighbours.                                      *)
Tree(edges, src, prev, level) ==
  LET D == DOMAIN prev
  IN  /\ D \subseteq Names(edges) /\ src \in D
      /\ prev \in [D -> D \cup {None}] /\ prev[src] = None
      /\ level \in [D -> Nat] /\ level[src] = 0
      /\ \A f \in D \ {src} : /\ prev[f] \in D /\ f \in Adjacent(edges, prev[f])
                              /\ level[f] = level[prev[f]] + 1
      /\ \A f \in D : level[f] < Cardinality(D)

Waits(q, level) ==
  /\ q \in Seq(DOMAIN level)
  /\ \A i, j \in 1 .. Len(q) : i <= j => level[q[i]] <= level[q[j]]
  /\ \A i \in 1 .. Len(q) : level[q[i]] <= level[q[1]] + 1

IsDone(edges, dst, q, level, f) ==
  /\ f # dst /\ Adjacent(edges, f) \subseteq DOMAIN level
  /\ \A g \in Adjacent(edges, f) : level[g] <= level[f] + 1
  /\ Len(q) > 0 => level[f] <= level[q[1]]

Searched(edges, src, dst, q, prev, level) ==
  /\ Tree(edges, src, prev, level) /\ Waits(q, level)
  /\ \A f \in DOMAIN level :
       (\E i \in 1 .. Len(q) : q[i] = f) \/ IsDone(edges, dst, q, level, f)

LEMMA AdjacentNames ==
  ASSUME NEW edges, NEW f PROVE Adjacent(edges, f) \subseteq Names(edges)
BY DEF Adjacent

(* The frames next to node that are new come one step after it.            *)
Spreads(edges, src, prev, level, node, fresh, prev2, level2) ==
  /\ Drawn(edges) /\ Tree(edges, src, prev, level) /\ node \in DOMAIN prev
  /\ fresh = Adjacent(edges, node) \ DOMAIN prev
  /\ prev2 = [f \in DOMAIN prev \cup fresh |-> IF f \in fresh THEN node ELSE prev[f]]
  /\ level2 = [f \in DOMAIN prev \cup fresh |->
                 IF f \in fresh THEN level[node] + 1 ELSE level[f]]

Spread(edges, src, prev, fresh, prev2, level2) ==
  /\ Tree(edges, src, prev2, level2) /\ DOMAIN prev2 = DOMAIN prev \cup fresh
  /\ IsFiniteSet(fresh) /\ fresh \subseteq Names(edges)
  /\ Cardinality(DOMAIN prev) \in Nat
  /\ Cardinality(DOMAIN prev2) = Cardinality(DOMAIN prev) + Cardinality(fresh)

LEMMA TreeGrows ==
  ASSUME NEW edges, NEW src, NEW prev, NEW level, NEW node, NEW fresh, NEW prev2, NEW level2,
         Spreads(edges, src, prev, level, node, fresh, prev2, level2)
  PROVE  Spread(edges, src, prev, fresh, prev2, level2)
<1> DEFINE D == DOMAIN prev
           E == D \cup fresh
<1>0. /\ Drawn(edges) /\ Tree(edges, src, prev, level) /\ node \in D
      /\ fresh = Adjacent(edges, node) \ D
      /\ prev2 = [f \in D \cup fresh |-> IF f \in fresh THEN node ELSE prev[f]]
      /\ level2 = [f \in D \cup fresh |-> IF f \in fresh THEN level[node] + 1 ELSE level[f]]
  BY Zenon DEF Spreads
<1>1. /\ D \subseteq Names(edges) /\ src \in D
      /\ prev \in [D -> D \cup {None}] /\ prev[src] = None
      /\ level \in [D -> Nat] /\ level[src] = 0
      /\ \A f \in D \ {src} : /\ prev[f] \in D /\ f \in Adjacent(edges, prev[f])
                              /\ level[f] = level[prev[f]] + 1
      /\ \A f \in D : level[f] < Cardinality(D)
  BY <1>0, Zenon DEF Tree
<1>2. fresh \subseteq Names(edges) /\ fresh \cap D = {} /\ fresh \subseteq Adjacent(edges, node)
  BY <1>0, AdjacentNames
<1>3. IsFiniteSet(D) /\ IsFiniteSet(fresh)  BY <1>0, <1>1, <1>2, DrawnFinite, FS_Subset
<1>4. /\ Cardinality(D) \in Nat /\ Cardinality(fresh) \in Nat
      /\ Cardinality(E) = Cardinality(D) + Cardinality(fresh)
  <2>1. D \cap fresh = {}  BY <1>2
  <2> HIDE DEF D
  <2>2. Cardinality(D \cup fresh) = Cardinality(D) + Cardinality(fresh) - Cardinality(D \cap fresh)
    BY <1>3, FS_Union
  <2>3. Cardinality(D \cap fresh) = 0  BY <2>1, FS_EmptySet
  <2>4. Cardinality(D) \in Nat /\ Cardinality(fresh) \in Nat  BY <1>3, FS_CardinalityType
  <2> QED  BY <2>2, <2>3, <2>4
<1>5. DOMAIN prev2 = E /\ DOMAIN level2 = E /\ node \in D  BY <1>0
<1>6. /\ \A f \in fresh : prev2[f] = node /\ level2[f] = level[node] + 1
      /\ \A f \in D : prev2[f] = prev[f] /\ level2[f] = level[f]
  BY <1>0, <1>2
<1> HIDE DEF D
<1>7. level[node] \in Nat /\ \A f \in D : level[f] \in Nat  BY <1>1, <1>5
<1>8. prev2 \in [E -> E \cup {None}]
  <2>1. \A f \in E : prev2[f] \in E \cup {None}  BY <1>1, <1>5, <1>6
  <2>2. prev2 = [f \in E |-> prev2[f]]  BY <1>0
  <2> HIDE DEF E
  <2> QED  BY <2>1, <2>2
<1>9. level2 \in [E -> Nat]
  <2>1. \A f \in E : level2[f] \in Nat  BY <1>6, <1>7
  <2>2. level2 = [f \in E |-> level2[f]]  BY <1>0
  <2> HIDE DEF E
  <2> QED  BY <2>1, <2>2
<1>10. \A f \in E \ {src} : /\ prev2[f] \in E /\ f \in Adjacent(edges, prev2[f])
                            /\ level2[f] = level2[prev2[f]] + 1
  <2> TAKE f \in E \ {src}
  <2>1. CASE f \in fresh  BY <1>2, <1>5, <1>6, <2>1
  <2>2. CASE f \in D  BY <1>1, <1>6, <2>2
  <2> QED  BY <2>1, <2>2
<1>11. \A f \in E : level2[f] < Cardinality(E)
  <2> TAKE f \in E
  <2>1. CASE f \in fresh
    <3>1. Cardinality(fresh) # 0  BY <1>3, <2>1, FS_EmptySet
    <3>2. level[node] < Cardinality(D)  BY <1>1, <1>5
    <3>3. level2[f] = level[node] + 1  BY <1>6, <2>1
    <3> HIDE DEF E
    <3> QED  BY <1>4, <1>7, <3>1, <3>2, <3>3
  <2>2. CASE f \in D
    <3>1. level2[f] = level[f] /\ level[f] < Cardinality(D) /\ level[f] \in Nat
      BY <1>1, <1>6, <1>7, <2>2
    <3> HIDE DEF E
    <3> QED  BY <1>4, <3>1
  <2> QED  BY <2>1, <2>2
<1>12. src \in E /\ prev2[src] = None /\ level2[src] = 0 /\ E \subseteq Names(edges)
  BY <1>1, <1>2, <1>6
<1>13. Tree(edges, src, prev2, level2)
  <2> HIDE DEF E
  <2> QED  BY <1>5, <1>8, <1>9, <1>10, <1>11, <1>12, Zenon DEF Tree
<1> QED  BY <1>2, <1>3, <1>4, <1>5, <1>13, Zenon DEF D, Spread

Visited(edges, node, q, prev, fresh, q2, prev2) ==
  /\ node = q[1] /\ fresh = Adjacent(edges, node) \ DOMAIN prev
  /\ q2 = Tail(q) \o InOrder(fresh)
  /\ prev2 = [f \in DOMAIN prev \cup fresh |-> IF f \in fresh THEN node ELSE prev[f]]

LEMMA VisitKeeps ==
  ASSUME NEW edges, Drawn(edges), NEW src, NEW dst, NEW q, NEW prev, NEW level,
         Searched(edges, src, dst, q, prev, level), Len(q) > 0, NEW node, node # dst,
         NEW fresh, NEW q2, NEW prev2, Visited(edges, node, q, prev, fresh, q2, prev2)
  PROVE  /\ \E level2 : Searched(edges, src, dst, q2, prev2, level2)
         /\ Len(q) \in Nat /\ Len(q2) \in Nat /\ Cardinality(DOMAIN prev) \in Nat
         /\ Cardinality(DOMAIN prev2) - Len(q2) = Cardinality(DOMAIN prev) - Len(q) + 1
<1> DEFINE D == DOMAIN prev
           E == D \cup fresh
           level2 == [f \in D \cup fresh |-> IF f \in fresh THEN level[node] + 1 ELSE level[f]]
           new == InOrder(fresh)
           m == Len(q) - 1
<1>0. /\ node = q[1] /\ fresh = Adjacent(edges, node) \ D /\ q2 = Tail(q) \o new
      /\ prev2 = [f \in D \cup fresh |-> IF f \in fresh THEN node ELSE prev[f]]
  BY Zenon DEF Visited
<1>1. Tree(edges, src, prev, level) /\ Waits(q, level)  BY Zenon DEF Searched
<1>2. DOMAIN level = D /\ \A f \in D : level[f] \in Nat  BY <1>1 DEF Tree
<1>3. /\ q \in Seq(D) /\ Len(q) \in Nat
      /\ \A i, j \in 1 .. Len(q) : i <= j => level[q[i]] <= level[q[j]]
      /\ \A i \in 1 .. Len(q) : level[q[i]] <= level[q[1]] + 1
  BY <1>1, <1>2 DEF Waits
<1>4. node \in D  BY <1>0, <1>3
<1>5. /\ Tree(edges, src, prev2, level2) /\ DOMAIN prev2 = E
      /\ IsFiniteSet(fresh) /\ fresh \subseteq Names(edges)
      /\ Cardinality(D) \in Nat
      /\ Cardinality(DOMAIN prev2) = Cardinality(D) + Cardinality(fresh)
  <2> HIDE DEF level2, D, E
  <2>1. node \in DOMAIN prev  BY <1>4 DEF D
  <2>2. Spreads(edges, src, prev, level, node, fresh, prev2, level2)
    BY <1>1, <2>1, Zenon DEF Spreads, Visited, level2, D
  <2>3. Spread(edges, src, prev, fresh, prev2, level2)  BY <2>2, TreeGrows
  <2> QED  BY <2>3, Zenon DEF D, E, Spread
<1>6. /\ DOMAIN level2 = E
      /\ \A f \in fresh : level2[f] = level[node] + 1
      /\ \A f \in D : level2[f] = level[f]
  BY <1>0
<1>7. /\ new \in Seq(fresh) /\ Len(new) = Cardinality(fresh) /\ Len(new) \in Nat
      /\ \A f \in fresh : \E i \in 1 .. Len(new) : new[i] = f
  <2>1. fresh \in SUBSET Nat  BY <1>5 DEF Drawn
  <2> HIDE DEF new
  <2>2. /\ InOrder(fresh) \in Seq(fresh) /\ Len(InOrder(fresh)) = Cardinality(fresh)
        /\ Cardinality(fresh) \in Nat
        /\ \A f \in fresh : \E i \in 1 .. Len(InOrder(fresh)) : InOrder(fresh)[i] = f
    BY <1>5, <2>1, InOrderAll, Zenon
  <2> QED  BY <2>2, Zenon DEF new
<1> HIDE DEF level2, new, D
<1>8. /\ q2 \in Seq(E) /\ Len(q2) = m + Len(new) /\ m \in Nat
      /\ \A i \in 1 .. m : q2[i] = q[i + 1]
      /\ \A i \in 1 .. Len(new) : q2[m + i] = new[i]
  <2>1. /\ Tail(q) \in Seq(E) /\ Len(Tail(q)) = m /\ m \in Nat
        /\ \A i \in 1 .. m : Tail(q)[i] = q[i + 1]
    BY <1>3
  <2>2. new \in Seq(E)  BY <1>7
  <2>3. q2 = Tail(q) \o new  BY <1>0
  <2> HIDE DEF E, m
  <2>4. PICK t : t = Tail(q)  OBVIOUS
  <2>5. /\ t \o new \in Seq(E) /\ Len(t \o new) = m + Len(new)
        /\ \A i \in 1 .. m : (t \o new)[i] = t[i]
        /\ \A i \in 1 .. Len(new) : (t \o new)[m + i] = new[i]
    <3>1. /\ t \in Seq(E) /\ new \in Seq(E) /\ Len(t) = m /\ m \in Nat /\ Len(new) \in Nat
      BY <1>7, <2>1, <2>2, <2>4
    <3>2. /\ t \o new \in Seq(E) /\ Len(t \o new) = Len(t) + Len(new)
          /\ \A i \in 1 .. (Len(t) + Len(new)) :
               (t \o new)[i] = IF i <= Len(t) THEN t[i] ELSE new[i - Len(t)]
      BY <3>1, ConcatProperties
    <3>3. \A i \in 1 .. m : i \in 1 .. (m + Len(new)) /\ i <= m  BY <3>1
    <3>4. \A i \in 1 .. Len(new) :
            m + i \in 1 .. (m + Len(new)) /\ ~(m + i <= m) /\ (m + i) - m = i
      BY <3>1
    <3> QED  BY <3>1, <3>2, <3>3, <3>4, Zenon
  <2> QED  BY <2>1, <2>3, <2>4, <2>5
(* The frames that wait are as far as the first one or one step further.   *)
<1>9. \A i \in 1 .. Len(q2) : \/ i \in 1 .. m /\ q2[i] = q[i + 1]
                              \/ \E j \in 1 .. Len(new) : i = m + j /\ q2[i] = new[j]
  <2> TAKE i \in 1 .. Len(q2)
  <2>1. CASE i <= m  BY <1>8, <2>1
  <2>2. CASE i > m
    <3>1. i - m \in 1 .. Len(new) /\ i = m + (i - m)  BY <1>7, <1>8, <2>2
    <3> HIDE DEF m
    <3>2. PICK j \in 1 .. Len(new) : i = m + j  BY <3>1
    <3> QED  BY <1>8, <3>2
  <2>3. i <= m \/ i > m  BY <1>7, <1>8
  <2> QED  BY <2>1, <2>2, <2>3, Zenon
<1>10. \A i \in 1 .. m : i + 1 \in 1 .. Len(q) /\ q[i + 1] \in D  BY <1>3
<1>11. \A j \in 1 .. Len(new) : new[j] \in fresh  BY <1>7
<1>12. \A i \in 1 .. Len(q2) : level2[q2[i]] = IF i <= m THEN level[q[i + 1]] ELSE level[node] + 1
  <2> TAKE i \in 1 .. Len(q2)
  <2>1. CASE i \in 1 .. m /\ q2[i] = q[i + 1]
    <3>1. q[i + 1] \in D  BY <1>10, <2>1
    <3> QED  BY <1>6, <2>1, <3>1
  <2>2. ASSUME NEW j \in 1 .. Len(new), i = m + j, q2[i] = new[j]
        PROVE  level2[q2[i]] = level[node] + 1 /\ ~(i <= m)
    <3>1. level2[new[j]] = level[node] + 1  BY <1>6, <1>11
    <3>2. ~(i <= m)  BY <1>7, <1>8, <2>2
    <3> QED  BY <2>2, <3>1, <3>2
  <2> QED  BY <1>9, <2>1, <2>2
<1>13. \A i \in 1 .. m : /\ level[node] <= level[q[i + 1]]
                         /\ level[q[i + 1]] <= level[node] + 1
  <2> TAKE i \in 1 .. m
  <2>1. i + 1 \in 1 .. Len(q) /\ 1 \in 1 .. Len(q) /\ 1 <= i + 1  BY <1>3
  <2> QED  BY <1>0, <1>3, <2>1
<1>14. \A i \in 1 .. Len(q2) : /\ level2[q2[i]] \in Nat /\ level[node] <= level2[q2[i]]
                               /\ level2[q2[i]] <= level[node] + 1
  <2> TAKE i \in 1 .. Len(q2)
  <2>1. level[node] \in Nat  BY <1>2, <1>4
  <2>2. CASE i <= m
    <3>1. i \in 1 .. m  BY <1>8, <2>2
    <3>2. level[q[i + 1]] \in Nat  BY <1>2, <1>10, <3>1
    <3> QED  BY <1>12, <1>13, <2>2, <3>1, <3>2
  <2>3. CASE ~(i <= m)
    <3>1. level2[q2[i]] = level[node] + 1  BY <1>12, <2>3
    <3> QED  BY <2>1, <3>1
  <2> QED  BY <2>2, <2>3
<1>15. Waits(q2, level2)
  <2>1. ASSUME NEW i \in 1 .. Len(q2), NEW j \in 1 .. Len(q2), i <= j
        PROVE  level2[q2[i]] <= level2[q2[j]]
    <3>1. CASE j <= m
      <4>1. i <= m /\ i + 1 \in 1 .. Len(q) /\ j + 1 \in 1 .. Len(q) /\ i + 1 <= j + 1
        BY <1>3, <1>8, <2>1, <3>1
      <4>2. level[q[i + 1]] <= level[q[j + 1]]  BY <1>3, <4>1
      <4> QED  BY <1>12, <3>1, <4>1, <4>2
    <3>2. CASE ~(j <= m)
      <4>1. level2[q2[j]] = level[node] + 1  BY <1>12, <3>2
      <4>2. level2[q2[i]] <= level[node] + 1  BY <1>14
      <4> QED  BY <4>1, <4>2
    <3> QED  BY <3>1, <3>2
  <2>2. ASSUME NEW i \in 1 .. Len(q2) PROVE level2[q2[i]] <= level2[q2[1]] + 1
    <3>1. 1 \in 1 .. Len(q2)  BY <1>7, <1>8
    <3>2. level[node] \in Nat  BY <1>2, <1>4
    <3>3. level2[q2[i]] \in Nat /\ level2[q2[i]] <= level[node] + 1  BY <1>14
    <3>4. level2[q2[1]] \in Nat /\ level[node] <= level2[q2[1]]  BY <1>14, <3>1
    <3>5. \A a, b, c \in Nat : a <= b + 1 /\ b <= c => a <= c + 1  OBVIOUS
    <3> QED  BY <3>2, <3>3, <3>4, <3>5, Zenon
  <2> QED  BY <1>6, <1>8, <2>1, <2>2 DEF Waits
(* node is done, and what was done stays so.                               *)
<1>16. \A f \in D : (\E i \in 1 .. Len(q) : q[i] = f) \/ IsDone(edges, dst, q, level, f)
  BY <1>2, Zenon DEF Searched
<1>17. Adjacent(edges, node) \subseteq E  BY <1>0
<1>18. ASSUME NEW g \in Adjacent(edges, node) PROVE level2[g] <= level[node] + 1
  <2>1. CASE g \in fresh
    <3>1. level[node] \in Nat  BY <1>2, <1>4
    <3> QED  BY <1>6, <2>1, <3>1
  <2>2. CASE g \in D
    <3>0. level2[g] = level[g] /\ level[g] \in Nat /\ level[node] \in Nat
      BY <1>2, <1>4, <1>6, <2>2
    <3>1. ASSUME NEW i \in 1 .. Len(q), q[i] = g PROVE level[g] <= level[node] + 1
      BY <1>0, <1>3, <3>1
    <3>2. ASSUME IsDone(edges, dst, q, level, g) PROVE level[g] <= level[node] + 1
      <4>1. level[g] <= level[node]  BY <1>0, <3>2 DEF IsDone
      <4> QED  BY <3>0, <4>1
    <3> QED  BY <1>16, <2>2, <3>0, <3>1, <3>2
  <2> QED  BY <1>17, <2>1, <2>2
<1>19. ASSUME NEW f \in E, ~\E i \in 1 .. Len(q2) : q2[i] = f
       PROVE  IsDone(edges, dst, q2, level2, f)
  <2>1. f \notin fresh
    <3> SUFFICES ASSUME f \in fresh PROVE FALSE  OBVIOUS
    <3>1. PICK i \in 1 .. Len(new) : new[i] = f  BY <1>7
    <3>2. m + i \in 1 .. Len(q2)  BY <1>7, <1>8
    <3>3. q2[m + i] = f  BY <1>8, <3>1
    <3> QED  BY <1>19, <3>2, <3>3
  <2>2. f \in D  BY <2>1
  <2>3. \A i \in 1 .. Len(q) : q[i] = f => f = node
    <3> SUFFICES ASSUME NEW i \in 1 .. Len(q), q[i] = f, i # 1 PROVE FALSE  BY <1>0
    <3>1. i - 1 \in 1 .. m /\ i - 1 \in 1 .. Len(q2) /\ (i - 1) + 1 = i  BY <1>3, <1>7, <1>8
    <3>2. q2[i - 1] = f  BY <1>8, <3>1
    <3> QED  BY <1>19, <3>1, <3>2
  <2>4. level[node] \in Nat /\ level[f] \in Nat /\ level2[f] = level[f]
    BY <1>2, <1>4, <1>6, <2>2
  <2>5. CASE f = node
    <3>1. Len(q2) > 0 => level2[f] <= level2[q2[1]]
      <4> SUFFICES ASSUME Len(q2) > 0 PROVE level2[f] <= level2[q2[1]]  OBVIOUS
      <4>1. 1 \in 1 .. Len(q2)  BY <1>7, <1>8
      <4> QED  BY <1>14, <2>4, <2>5, <4>1
    <3>2. \A g \in Adjacent(edges, f) : level2[g] <= level2[f] + 1  BY <1>18, <2>4, <2>5
    <3> QED  BY <1>6, <1>17, <2>5, <3>1, <3>2 DEF IsDone
  <2>6. CASE f # node
    <3>1. IsDone(edges, dst, q, level, f)  BY <1>16, <2>2, <2>3, <2>6
    <3>2. /\ f # dst /\ Adjacent(edges, f) \subseteq D /\ level[f] <= level[node]
          /\ \A g \in Adjacent(edges, f) : level[g] <= level[f] + 1
      BY <1>0, <1>2, <3>1 DEF IsDone
    <3>3. \A g \in Adjacent(edges, f) : level2[g] <= level2[f] + 1  BY <1>6, <2>4, <3>2
    <3>4. Len(q2) > 0 => level2[f] <= level2[q2[1]]
      <4> SUFFICES ASSUME Len(q2) > 0 PROVE level2[f] <= level2[q2[1]]  OBVIOUS
      <4>1. 1 \in 1 .. Len(q2)  BY <1>7, <1>8
      <4>2. level[node] <= level2[q2[1]] /\ level2[q2[1]] \in Nat  BY <1>14, <4>1
      <4> QED  BY <2>4, <3>2, <4>2
    <3> QED  BY <1>6, <3>2, <3>3, <3>4 DEF IsDone
  <2> QED  BY <2>5, <2>6
<1>20. Searched(edges, src, dst, q2, prev2, level2)
  <2> HIDE DEF E
  <2> QED  BY <1>5, <1>6, <1>15, <1>19, Zenon DEF Searched
<1>21. Cardinality(DOMAIN prev2) - Len(q2) = Cardinality(DOMAIN prev) - Len(q) + 1
  <2>1. Cardinality(D) \in Nat /\ Cardinality(DOMAIN prev2) = Cardinality(D) + Len(new)
    BY <1>5, <1>7
  <2>2. Len(q2) = Len(q) - 1 + Len(new)  BY <1>8
  <2>3. Cardinality(DOMAIN prev2) - Len(q2) = Cardinality(D) - Len(q) + 1
    <3>1. PICK a, b, n, x, y : /\ a = Cardinality(D) /\ b = Len(q) /\ n = Len(new)
                               /\ x = Cardinality(DOMAIN prev2) /\ y = Len(q2)
      OBVIOUS
    <3>2. a \in Nat /\ b \in Nat /\ n \in Nat /\ x = a + n /\ y = b - 1 + n
      BY <1>3, <1>7, <2>1, <2>2, <3>1, Zenon
    <3>3. x - y = a - b + 1  BY <3>2
    <3> QED  BY <3>1, <3>3, Zenon
  <2> QED  BY <2>3 DEF D
<1>22. Cardinality(DOMAIN prev) \in Nat /\ Len(q) \in Nat /\ Len(q2) \in Nat
  BY <1>3, <1>5, <1>8 DEF D
<1> QED  BY <1>20, <1>21, <1>22

SearchStates(F) == [queue : Seq(F), previous : UNION {[D -> F \cup {None}] : D \in SUBSET F}]
HasStopped(s, dst) == Len(s.queue) = 0 \/ s.queue[1] = dst

LEMMA SearchedState ==
  ASSUME NEW edges, NEW src, NEW dst, NEW q, NEW prev, NEW level,
         Searched(edges, src, dst, q, prev, level)
  PROVE  q \in Seq(Names(edges)) /\ prev \in UNION {[D -> Names(edges) \cup {None}] :
                                                      D \in SUBSET Names(edges)}
<1> DEFINE F == Names(edges)
           P == DOMAIN prev
<1>1. Tree(edges, src, prev, level) /\ Waits(q, level)  BY Zenon DEF Searched
<1>2. P \subseteq F /\ prev \in [P -> P \cup {None}] /\ DOMAIN level = P
  BY <1>1 DEF Tree
<1> HIDE DEF P, F
<1>3. q \in Seq(P)  BY <1>1, <1>2 DEF Waits
<1>4. q \in Seq(F)  BY <1>2, <1>3, SeqMonotonic
<1>5. prev \in [P -> F \cup {None}]
  <2>1. \A f \in P : prev[f] \in F \cup {None}  BY <1>2
  <2>2. prev = [f \in P |-> prev[f]]  BY <1>2
  <2> QED  BY <2>1, <2>2
<1>6. prev \in UNION {[D -> F \cup {None}] : D \in SUBSET F}  BY <1>2, <1>5
<1> QED  BY <1>4, <1>6 DEF F

LEMMA VisitSearches ==
  ASSUME NEW edges, Drawn(edges), NEW src, NEW dst, NEW s \in SearchStates(Names(edges)),
         NEW level, Searched(edges, src, dst, s.queue, s.previous, level)
  PROVE  IF HasStopped(s, dst) THEN Visit(edges, dst, s) = s
         ELSE /\ Visit(edges, dst, s) \in SearchStates(Names(edges))
              /\ \E level2 : Searched(edges, src, dst, Visit(edges, dst, s).queue,
                                      Visit(edges, dst, s).previous, level2)
              /\ Cardinality(DOMAIN Visit(edges, dst, s).previous)
                   - Len(Visit(edges, dst, s).queue)
                     = Cardinality(DOMAIN s.previous) - Len(s.queue) + 1
<1> DEFINE q == s.queue
           prev == s.previous
           node == Head(q)
           fresh == Adjacent(edges, node) \ DOMAIN prev
           q2 == Tail(q) \o InOrder(fresh)
           prev2 == [f \in DOMAIN prev \cup fresh |-> IF f \in fresh THEN node ELSE prev[f]]
           v == Visit(edges, dst, s)
<1>1. q \in Seq(Names(edges)) /\ Len(q) \in Nat  BY DEF SearchStates
<1>2. q = <<>> <=> Len(q) = 0  BY <1>1
<1>3. Len(q) > 0 => node = q[1]  BY <1>1
<1>4. CASE HasStopped(s, dst)
  <2>1. q = <<>> \/ node = dst  BY <1>1, <1>2, <1>3, <1>4 DEF HasStopped
  <2>2. v = s  BY <2>1, Zenon DEF Visit
  <2> QED  BY <1>4, <2>2
<1>5. CASE ~HasStopped(s, dst)
  <2>1. Len(q) > 0 /\ node # dst /\ node = q[1] /\ ~(q = <<>>)
    BY <1>1, <1>2, <1>3, <1>5 DEF HasStopped
  <2>2. v = [queue |-> q2, previous |-> prev2]
    <3> HIDE DEF q
    <3> QED  BY <2>1, Zenon DEF Visit, q
  <2>3. Visited(edges, node, q, prev, fresh, q2, prev2)  BY <2>1, Zenon DEF Visited
  <2> HIDE DEF q, prev, node, fresh, q2, prev2, v
  <2>4. v.queue = q2 /\ v.previous = prev2  BY <2>2
  <2>5. Searched(edges, src, dst, q, prev, level)  BY Zenon DEF q, prev
  <2>6. /\ \E level2 : Searched(edges, src, dst, q2, prev2, level2)
        /\ Cardinality(DOMAIN prev2) - Len(q2) = Cardinality(DOMAIN prev) - Len(q) + 1
    BY <2>1, <2>3, <2>5, VisitKeeps
  <2>7. PICK level2 : Searched(edges, src, dst, q2, prev2, level2)  BY <2>6
  <2>8. v \in SearchStates(Names(edges))
    <3>1. q2 \in Seq(Names(edges)) /\ prev2 \in UNION {[D -> Names(edges) \cup {None}] :
                                                         D \in SUBSET Names(edges)}
      BY <2>7, SearchedState
    <3> QED  BY <2>2, <3>1, Zenon DEF SearchStates
  <2> QED  BY <1>5, <2>4, <2>6, <2>8, Zenon DEF q, prev, v
<1> QED  BY <1>4, <1>5

LEMMA SearchStarts ==
  ASSUME NEW edges, NEW src \in Names(edges), NEW dst
  PROVE  Searched(edges, src, dst, <<src>>, [f \in {src} |-> None], [f \in {src} |-> 0])
<1> DEFINE prev == [f \in {src} |-> None]
           level == [f \in {src} |-> 0]
           q == <<src>>
<1>1. /\ DOMAIN prev = {src} /\ prev[src] = None /\ DOMAIN level = {src} /\ level[src] = 0
      /\ prev \in [{src} -> {src} \cup {None}] /\ level \in [{src} -> Nat]
      /\ q \in Seq({src}) /\ Len(q) = 1 /\ q[1] = src
  OBVIOUS
<1>2. Cardinality({src}) = 1  BY FS_Singleton
<1> HIDE DEF prev, level, q
<1>3. Tree(edges, src, prev, level)  BY <1>1, <1>2 DEF Tree
<1>4. Waits(q, level)  BY <1>1 DEF Waits
<1>5. \A f \in DOMAIN level : \E i \in 1 .. Len(q) : q[i] = f
  <2>1. 1 \in 1 .. Len(q)  BY <1>1
  <2> QED  BY <1>1, <2>1
<1>6. Searched(edges, src, dst, q, prev, level)  BY <1>3, <1>4, <1>5, Zenon DEF Searched
<1> QED  BY <1>6 DEF prev, level, q

(* A search of as many steps as there are frames comes to its end.         *)
LEMMA SearchEnds ==
  ASSUME NEW edges, Drawn(edges), NEW src \in Names(edges), NEW dst
  PROVE  \E q, level : /\ Searched(edges, src, dst, q, Bfs(edges, src, dst), level)
                       /\ Len(q) = 0 \/ q[1] = dst
<1> DEFINE N == Cardinality(Names(edges))
           initial == [queue |-> <<src>>, previous |-> [f \in {src} |-> None]]
           Was(s) == \E level : Searched(edges, src, dst, s.queue, s.previous, level)
           T == {s \in SearchStates(Names(edges)) : Was(s)}
           step == [n \in 1 .. N |-> [s \in T |-> Visit(edges, dst, s)]]
           Body(f, n) == IF n = 0 THEN initial ELSE Visit(edges, dst, f[n - 1])
           search[n \in 0 .. N] ==
             IF n = 0 THEN initial ELSE Visit(edges, dst, search[n - 1])
<1>0. N \in Nat /\ IsFiniteSet(Names(edges))  BY DrawnFinite, FS_CardinalityType
<1>1. initial \in T /\ Cardinality(DOMAIN initial.previous) - Len(initial.queue) = 0
  <2>1. initial.queue = <<src>> /\ initial.previous = [f \in {src} |-> None]  OBVIOUS
  <2>2. Searched(edges, src, dst, <<src>>, [f \in {src} |-> None], [f \in {src} |-> 0])
    BY SearchStarts
  <2>3. /\ <<src>> \in Seq(Names(edges))
        /\ [f \in {src} |-> None] \in UNION {[D -> Names(edges) \cup {None}] :
                                               D \in SUBSET Names(edges)}
    BY <2>2, SearchedState
  <2>4. initial \in SearchStates(Names(edges))  BY <2>3, Zenon DEF SearchStates
  <2>5. DOMAIN initial.previous = {src} /\ Len(initial.queue) = 1  OBVIOUS
  <2> HIDE DEF initial
  <2>6. Was(initial)  BY <2>1, <2>2, Zenon
  <2>7. Cardinality(DOMAIN initial.previous) = 1  BY <2>5, FS_Singleton
  <2> QED  BY <2>4, <2>5, <2>6, <2>7
<1> HIDE DEF initial
<1>2. \A s \in T : /\ Visit(edges, dst, s) \in T
                   /\ IF HasStopped(s, dst) THEN Visit(edges, dst, s) = s
                      ELSE Cardinality(DOMAIN Visit(edges, dst, s).previous)
                             - Len(Visit(edges, dst, s).queue)
                               = Cardinality(DOMAIN s.previous) - Len(s.queue) + 1
  <2> TAKE s \in T
  <2>1. PICK level : Searched(edges, src, dst, s.queue, s.previous, level)  OBVIOUS
  <2>2. IF HasStopped(s, dst) THEN Visit(edges, dst, s) = s
        ELSE /\ Visit(edges, dst, s) \in SearchStates(Names(edges))
             /\ Was(Visit(edges, dst, s))
             /\ Cardinality(DOMAIN Visit(edges, dst, s).previous)
                  - Len(Visit(edges, dst, s).queue)
                    = Cardinality(DOMAIN s.previous) - Len(s.queue) + 1
    BY <2>1, VisitSearches
  <2> HIDE DEF Was
  <2> QED  BY <2>2, Zenon
<1> HIDE DEF T
<1>3. Bfs(edges, src, dst) = search[N].previous  BY DEF Bfs, initial
<1>4. search = CHOOSE f : f = [n \in 0 .. N |-> Body(f, n)]  OBVIOUS
<1> HIDE DEF search
<1>5. PICK g : RunOf(N, T, initial, step, g)
  <2> HIDE DEF N
  <2>1. step \in [1 .. N -> [T -> T]]  BY <1>2
  <2> HIDE DEF step
  <2> QED  BY <1>0, <1>1, <2>1, Recursion
<1>6. /\ g \in [0 .. N -> T] /\ g[0] = initial
      /\ \A n \in 1 .. N : g[n] = Visit(edges, dst, g[n - 1])
  <2>1. g \in [0 .. N -> T] /\ g[0] = initial /\ \A n \in 1 .. N : g[n] = step[n][g[n - 1]]
    BY <1>5 DEF RunOf
  <2>2. ASSUME NEW n \in 1 .. N PROVE g[n] = Visit(edges, dst, g[n - 1])
    <3>1. n - 1 \in 0 .. N  BY <1>0
    <3>2. g[n - 1] \in T  BY <2>1, <3>1
    <3> QED  BY <2>1, <3>2
  <2> QED  BY <2>1, <2>2
<1>7. search = [n \in 0 .. N |-> Body(search, n)]
  <2>1. \A n \in 0 .. N : g[n] = Body(g, n)
    <3> TAKE n \in 0 .. N
    <3>1. n = 0 \/ n \in 1 .. N  BY <1>0
    <3> QED  BY <1>0, <1>6, <3>1
  <2> HIDE DEF Body
  <2>2. g = [n \in 0 .. N |-> Body(g, n)]  BY <1>6, <2>1
  <2> QED  BY <1>4, <2>2
<1>8. search[0] = initial /\ \A n \in 1 .. N : search[n] = Visit(edges, dst, search[n - 1])
  BY <1>0, <1>7
<1> DEFINE Came(s) == Cardinality(DOMAIN s.previous) - Len(s.queue)
           H == {n \in 0 .. N : /\ search[n] \in T
                                /\ HasStopped(search[n], dst) \/ Came(search[n]) = n}
<1>9. 0 \in H  BY <1>0, <1>1, <1>8
<1>10. ASSUME NEW n \in 1 .. N, n - 1 \in H PROVE n \in H
  <2>1. n - 1 \in 0 .. N /\ (n - 1) + 1 = n /\ n \in 0 .. N  BY <1>0
  <2>2. PICK s : s = search[n - 1]  OBVIOUS
  <2>3. search[n] = Visit(edges, dst, s)  BY <1>8, <2>2
  <2>4. s \in T /\ (HasStopped(s, dst) \/ Came(s) = n - 1)  BY <1>10, <2>2
  <2>5. /\ Visit(edges, dst, s) \in T
        /\ IF HasStopped(s, dst) THEN Visit(edges, dst, s) = s
           ELSE Came(Visit(edges, dst, s)) = Came(s) + 1
    BY <1>2, <2>4
  <2> HIDE DEF Came
  <2>6. HasStopped(search[n], dst) \/ Came(search[n]) = n
    BY <2>1, <2>3, <2>4, <2>5
  <2> QED  BY <2>1, <2>3, <2>5, <2>6
<1>11. \A n \in 0 .. N : n \in H
  <2> HIDE DEF H
  <2> QED  BY <1>0, <1>9, <1>10, HandedOn
<1>12. PICK s : s = search[N]  OBVIOUS
<1>13. s \in T /\ (HasStopped(s, dst) \/ Came(s) = N)
  <2>1. N \in H  BY <1>0, <1>11
  <2> QED  BY <1>12, <2>1
<1>14. PICK level : Searched(edges, src, dst, s.queue, s.previous, level)
  BY <1>13 DEF T
<1>15. HasStopped(s, dst)
  <2> SUFFICES ASSUME Came(s) = N PROVE Len(s.queue) = 0  BY <1>13 DEF HasStopped
  <2>1. Tree(edges, src, s.previous, level)  BY <1>14, Zenon DEF Searched
  <2>2. DOMAIN s.previous \subseteq Names(edges)  BY <2>1 DEF Tree
  <2>3. Cardinality(DOMAIN s.previous) <= N /\ Cardinality(DOMAIN s.previous) \in Nat
    BY <1>0, <2>2, FS_Subset, FS_CardinalityType
  <2>4. Len(s.queue) \in Nat  BY <1>13 DEF T, SearchStates
  <2> HIDE DEF N
  <2> QED  BY <1>0, <2>3, <2>4
<1>16. Bfs(edges, src, dst) = s.previous  BY <1>3, <1>12
<1> QED  BY <1>14, <1>15, <1>16 DEF HasStopped

(* A chain to the frame looked for cannot end before the search comes to   *)
(* it: at each step it is at a frame that the search came to, no further.  *)
LEMMA NoChainBefore ==
  ASSUME NEW edges, NEW src, NEW dst, NEW q, NEW prev, NEW level,
         Searched(edges, src, dst, q, prev, level), NEW n \in Nat \ {0},
         NEW chain \in [1 .. n -> Names(edges)], Joins(edges, chain, src, dst),
         \A i \in 1 .. Len(q) : n <= level[q[i]]
  PROVE  FALSE
<1> DEFINE D == DOMAIN level
           H == {k \in 0 .. n - 1 : chain[k + 1] \in D /\ level[chain[k + 1]] <= k}
<1>1. src \in D /\ level[src] = 0 /\ \A f \in D : level[f] \in Nat
  <2>1. Tree(edges, src, prev, level)  BY Zenon DEF Searched
  <2> QED  BY <2>1 DEF Tree
<1>2. Len(chain) = n
  BY SeqDef, LenProperties
<1>3. /\ chain[1] = src /\ chain[n] = dst
      /\ \A i \in 1 .. n - 1 : chain[i + 1] \in Adjacent(edges, chain[i])
  <2>1. /\ chain[1] = src /\ chain[n] = dst
        /\ \A i \in 1 .. n - 1 :
             {<<chain[i], chain[i + 1]>>, <<chain[i + 1], chain[i]>>} \cap edges # {}
    BY <1>2 DEF Joins
  <2>2. ASSUME NEW i \in 1 .. n - 1 PROVE chain[i + 1] \in Adjacent(edges, chain[i])
    <3>1. chain[i + 1] \in Names(edges)
      <4>1. i + 1 \in 1 .. n  OBVIOUS
      <4> QED  BY <4>1
    <3>2. <<chain[i], chain[i + 1]>> \in edges \/ <<chain[i + 1], chain[i]>> \in edges
      BY <2>1
    <3> QED  BY <3>1, <3>2 DEF Adjacent
  <2> QED  BY <2>1, <2>2
<1> HIDE DEF D
<1>4. ASSUME NEW f \in D, level[f] < n
      PROVE  IsDone(edges, dst, q, level, f)
  <2>1. (\E i \in 1 .. Len(q) : q[i] = f) \/ IsDone(edges, dst, q, level, f)
    BY Zenon DEF Searched, D
  <2>2. \A i \in 1 .. Len(q) : q[i] # f
    <3> SUFFICES ASSUME NEW i \in 1 .. Len(q), q[i] = f PROVE FALSE  OBVIOUS
    <3>1. n <= level[f]  OBVIOUS
    <3>2. level[f] \in Nat  BY <1>1
    <3> QED  BY <1>4, <3>1, <3>2
  <2> QED  BY <2>1, <2>2
<1>5. 0 \in H
  <2>1. 0 \in 0 .. n - 1 /\ 0 + 1 = 1  OBVIOUS
  <2> QED  BY <1>1, <1>3, <2>1
<1>6. ASSUME NEW k \in 1 .. n - 1, k - 1 \in H PROVE k \in H
  <2>1. k \in 0 .. n - 1 /\ (k - 1) + 1 = k /\ k \in Nat  OBVIOUS
  <2>2. chain[k] \in D /\ level[chain[k]] <= k - 1  BY <1>6, <2>1
  <2>3. level[chain[k]] \in Nat  BY <1>1, <2>2
  <2>4. level[chain[k]] < n  BY <2>2, <2>3
  <2>5. /\ Adjacent(edges, chain[k]) \subseteq D
        /\ \A g \in Adjacent(edges, chain[k]) : level[g] <= level[chain[k]] + 1
    BY <1>4, <2>2, <2>4 DEF IsDone, D
  <2>6. chain[k + 1] \in Adjacent(edges, chain[k])  BY <1>3
  <2>7. chain[k + 1] \in D /\ level[chain[k + 1]] <= level[chain[k]] + 1  BY <2>5, <2>6
  <2>8. level[chain[k + 1]] \in Nat  BY <1>1, <2>7
  <2>9. level[chain[k + 1]] <= k  BY <2>2, <2>3, <2>7, <2>8
  <2> QED  BY <2>1, <2>7, <2>9
<1>7. n - 1 \in H
  <2> DEFINE N == n - 1
  <2>1. N \in Nat  OBVIOUS
  <2>2. \A k \in 1 .. N : k - 1 \in H => k \in H  BY <1>6
  <2> HIDE DEF H
  <2>3. \A k \in 0 .. N : k \in H
    <3> HIDE DEF N
    <3> QED  BY <1>5, <2>1, <2>2, HandedOn
  <2> QED  BY <2>1, <2>3
<1>8. dst \in D /\ level[dst] <= n - 1
  <2>1. (n - 1) + 1 = n  OBVIOUS
  <2> QED  BY <1>3, <1>7, <2>1
<1>9. level[dst] \in Nat  BY <1>1, <1>8
<1>10. level[dst] < n  BY <1>8, <1>9
<1> QED  BY <1>4, <1>8, <1>10 DEF IsDone

(* From a frame the search came to, back along the tree.                   *)
OnTheWayBack(prev, level, dst, b) ==
  /\ b \in Seq(DOMAIN prev) /\ Len(b) > 0 /\ b[Len(b)] = dst
  /\ level[b[1]] + Len(b) = level[dst] + 1
  /\ \A i \in 1 .. Len(b) - 1 : prev[b[i + 1]] = b[i] /\ prev[b[i + 1]] # None

LEMMA OneBackKeeps ==
  ASSUME NEW edges, Drawn(edges), NEW src, NEW prev, NEW level, Tree(edges, src, prev, level),
         NEW dst, NEW b, OnTheWayBack(prev, level, dst, b)
  PROVE  /\ OnTheWayBack(prev, level, dst, OneBack(prev, b))
         /\ IF b[1] = src THEN OneBack(prev, b) = b
            ELSE Len(OneBack(prev, b)) = Len(b) + 1
<1> DEFINE D == DOMAIN prev
           f == b[1]
           p == prev[f]
           c == <<p>> \o b
<1>1. /\ src \in D /\ prev[src] = None /\ D \subseteq Nat \ {None}
      /\ \A x \in D \ {src} : prev[x] \in D /\ level[x] = level[prev[x]] + 1
      /\ \A x \in D : level[x] \in Nat
  BY DEF Tree, Drawn
<1>2. /\ b \in Seq(D) /\ Len(b) > 0 /\ Len(b) \in Nat /\ b[Len(b)] = dst
      /\ level[f] + Len(b) = level[dst] + 1
      /\ \A i \in 1 .. Len(b) - 1 : prev[b[i + 1]] = b[i] /\ prev[b[i + 1]] # None
  BY DEF OnTheWayBack
<1>3. f \in D /\ Head(b) = f /\ dst \in D  BY <1>2
<1> HIDE DEF D, f
<1>4. CASE f = src
  <2>1. OneBack(prev, b) = b  BY <1>1, <1>3, <1>4 DEF OneBack
  <2> QED  BY <1>4, <2>1 DEF f
<1>5. CASE f # src
  <2>1. p \in D /\ p # None /\ level[f] = level[p] + 1  BY <1>1, <1>3, <1>5
  <2>2. OneBack(prev, b) = c  BY <1>3, <2>1 DEF OneBack
  <2> HIDE DEF p
  <2>3. /\ c \in Seq(D) /\ Len(c) = Len(b) + 1 /\ c[1] = p
        /\ \A i \in 1 .. Len(b) : c[i + 1] = b[i]
    <3>1. <<p>> \in Seq(D) /\ Len(<<p>>) = 1 /\ <<p>>[1] = p  BY <2>1
    <3>2. PICK t : t = <<p>>  OBVIOUS
    <3>3. /\ t \o b \in Seq(D) /\ Len(t \o b) = Len(t) + Len(b)
          /\ \A i \in 1 .. (Len(t) + Len(b)) :
               (t \o b)[i] = IF i <= Len(t) THEN t[i] ELSE b[i - Len(t)]
      BY <1>2, <3>1, <3>2, ConcatProperties
    <3>4. 1 \in 1 .. (1 + Len(b)) /\ 1 + Len(b) = Len(b) + 1  BY <1>2
    <3>5. \A i \in 1 .. Len(b) :
            i + 1 \in 1 .. (1 + Len(b)) /\ ~(i + 1 <= 1) /\ (i + 1) - 1 = i
      BY <1>2
    <3>6. Len(t) = 1 /\ t[1] = p  BY <3>1, <3>2
    <3>7. (t \o b)[1] = p  BY <3>3, <3>4, <3>6
    <3>8. \A i \in 1 .. Len(b) : (t \o b)[i + 1] = b[i]  BY <3>3, <3>5, <3>6
    <3>9. c = t \o b  BY <3>2
    <3> HIDE DEF c
    <3> QED  BY <3>3, <3>4, <3>6, <3>7, <3>8, <3>9
  <2> HIDE DEF c
  <2>4. c[Len(c)] = dst
    <3>1. Len(b) \in 1 .. Len(b)  BY <1>2
    <3> QED  BY <1>2, <2>3, <3>1
  <2>5. level[c[1]] + Len(c) = level[dst] + 1
    <3>1. level[p] \in Nat /\ level[f] \in Nat /\ level[dst] \in Nat  BY <1>1, <1>3, <2>1
    <3> QED  BY <1>2, <2>1, <2>3, <3>1
  <2>6. ASSUME NEW i \in 1 .. Len(c) - 1 PROVE prev[c[i + 1]] = c[i] /\ prev[c[i + 1]] # None
    <3>1. i \in 1 .. Len(b) /\ c[i + 1] = b[i]  BY <1>2, <2>3
    <3>2. CASE i = 1
      <4>1. c[i + 1] = f /\ c[i] = p  BY <2>3, <3>1, <3>2 DEF f
      <4> QED  BY <2>1, <4>1 DEF p
    <3>3. CASE i # 1
      <4>1. i - 1 \in 1 .. Len(b) - 1 /\ i - 1 \in 1 .. Len(b) /\ (i - 1) + 1 = i
        BY <1>2, <3>1, <3>3
      <4>2. c[i] = b[i - 1]  BY <2>3, <4>1
      <4>3. prev[b[i]] = b[i - 1] /\ prev[b[i]] # None  BY <1>2, <4>1
      <4> QED  BY <3>1, <4>2, <4>3
    <3> QED  BY <3>2, <3>3
  <2>7. OnTheWayBack(prev, level, dst, c)
    <3>1. Len(c) > 0 /\ c \in Seq(DOMAIN prev)  BY <1>2, <2>3 DEF D
    <3> QED  BY <2>4, <2>5, <2>6, <3>1 DEF OnTheWayBack
  <2> QED  BY <1>5, <2>2, <2>3, <2>7 DEF f
<1> QED  BY <1>4, <1>5

LEMMA BackEnds ==
  ASSUME NEW edges, Drawn(edges), NEW src, NEW prev, NEW level, Tree(edges, src, prev, level),
         NEW dst \in DOMAIN prev
  PROVE  OnTheWayBack(prev, level, dst, Back(prev, dst)) /\ Back(prev, dst)[1] = src
<1> DEFINE D == DOMAIN prev
           N == Cardinality(D)
           T == {b \in Seq(D) : OnTheWayBack(prev, level, dst, b)}
           step == [n \in 1 .. N |-> [b \in T |-> OneBack(prev, b)]]
           Body(f, n) == IF n = 0 THEN <<dst>> ELSE OneBack(prev, f[n - 1])
           chain[n \in 0 .. N] == IF n = 0 THEN <<dst>> ELSE OneBack(prev, chain[n - 1])
<1>0. /\ N \in Nat /\ src \in D
      /\ \A f \in D : level[f] \in Nat /\ level[f] < N
  <2>1. /\ D \subseteq Names(edges) /\ src \in D
        /\ \A f \in D : level[f] \in Nat /\ level[f] < N
    BY DEF Tree
  <2>2. IsFiniteSet(D)  BY <2>1, DrawnFinite, FS_Subset
  <2> QED  BY <2>1, <2>2, FS_CardinalityType
<1>1. <<dst>> \in T
  <2>1. <<dst>> \in Seq(D) /\ Len(<<dst>>) = 1 /\ <<dst>>[1] = dst  OBVIOUS
  <2>2. OnTheWayBack(prev, level, dst, <<dst>>)  BY <2>1 DEF OnTheWayBack
  <2> QED  BY <2>1, <2>2
<1>2. \A b \in T : /\ OneBack(prev, b) \in T
                   /\ IF b[1] = src THEN OneBack(prev, b) = b
                      ELSE Len(OneBack(prev, b)) = Len(b) + 1
  <2> TAKE b \in T
  <2>1. /\ OnTheWayBack(prev, level, dst, OneBack(prev, b))
        /\ IF b[1] = src THEN OneBack(prev, b) = b
           ELSE Len(OneBack(prev, b)) = Len(b) + 1
    BY OneBackKeeps
  <2>2. OneBack(prev, b) \in Seq(D)  BY <2>1 DEF OnTheWayBack
  <2> QED  BY <2>1, <2>2
<1>3. Back(prev, dst) = chain[N]  BY DEF Back
<1>4. chain = CHOOSE f : f = [n \in 0 .. N |-> Body(f, n)]  OBVIOUS
<1> HIDE DEF chain
<1>5. PICK g : RunOf(N, T, <<dst>>, step, g)
  <2> HIDE DEF T, N
  <2>1. step \in [1 .. N -> [T -> T]]  BY <1>2
  <2> HIDE DEF step
  <2> QED  BY <1>0, <1>1, <2>1, Recursion
<1> HIDE DEF T
<1>6. /\ g \in [0 .. N -> T] /\ g[0] = <<dst>>
      /\ \A n \in 1 .. N : g[n] = OneBack(prev, g[n - 1])
  <2>1. g \in [0 .. N -> T] /\ g[0] = <<dst>> /\ \A n \in 1 .. N : g[n] = step[n][g[n - 1]]
    BY <1>5 DEF RunOf
  <2>2. ASSUME NEW n \in 1 .. N PROVE g[n] = OneBack(prev, g[n - 1])
    <3>1. n - 1 \in 0 .. N  BY <1>0
    <3>2. g[n - 1] \in T  BY <2>1, <3>1
    <3> QED  BY <2>1, <3>2
  <2> QED  BY <2>1, <2>2
<1>7. chain = [n \in 0 .. N |-> Body(chain, n)]
  <2>1. \A n \in 0 .. N : g[n] = Body(g, n)
    <3> TAKE n \in 0 .. N
    <3>1. n = 0 \/ n \in 1 .. N  BY <1>0
    <3> QED  BY <1>0, <1>6, <3>1
  <2> HIDE DEF Body
  <2>2. g = [n \in 0 .. N |-> Body(g, n)]  BY <1>6, <2>1
  <2> QED  BY <1>4, <2>2
<1>8. chain[0] = <<dst>> /\ \A n \in 1 .. N : chain[n] = OneBack(prev, chain[n - 1])
  BY <1>0, <1>7
<1> DEFINE H == {n \in 0 .. N : /\ chain[n] \in T
                                /\ chain[n][1] = src \/ Len(chain[n]) = n + 1}
<1>9. 0 \in H
  <2>1. Len(<<dst>>) = 1  OBVIOUS
  <2> QED  BY <1>0, <1>1, <1>8, <2>1
<1>10. ASSUME NEW n \in 1 .. N, n - 1 \in H PROVE n \in H
  <2>1. n - 1 \in 0 .. N /\ (n - 1) + 1 = n /\ n \in 0 .. N  BY <1>0
  <2>2. chain[n] = OneBack(prev, chain[n - 1])  BY <1>8
  <2>3. chain[n - 1] \in T /\ (chain[n - 1][1] = src \/ Len(chain[n - 1]) = n)
    BY <1>10, <2>1
  <2>4. chain[n] \in T  BY <1>2, <2>2, <2>3
  <2>5. chain[n][1] = src \/ Len(chain[n]) = n + 1  BY <1>2, <2>2, <2>3
  <2> QED  BY <2>1, <2>4, <2>5
<1>11. \A n \in 0 .. N : n \in H
  <2> HIDE DEF H
  <2> QED  BY <1>0, <1>9, <1>10, HandedOn
<1>12. PICK b : b = chain[N]  OBVIOUS
<1>13. b \in T /\ (b[1] = src \/ Len(b) = N + 1)
  <2>1. N \in H  BY <1>0, <1>11
  <2> QED  BY <1>12, <2>1
<1>14. OnTheWayBack(prev, level, dst, b)  BY <1>13 DEF T
<1>15. Len(b) # N + 1
  <2> SUFFICES ASSUME Len(b) = N + 1 PROVE FALSE  OBVIOUS
  <2>1. b \in Seq(D) /\ Len(b) > 0 /\ level[b[1]] + Len(b) = level[dst] + 1
    BY <1>14 DEF OnTheWayBack
  <2>2. b[1] \in D /\ dst \in D  BY <2>1
  <2>3. level[b[1]] \in Nat /\ level[dst] \in Nat /\ level[dst] < N  BY <1>0, <2>2
  <2> HIDE DEF N
  <2> QED  BY <1>0, <2>1, <2>3
<1> QED  BY <1>3, <1>12, <1>13, <1>14, <1>15

(* The path of a report is a chain, and no chain is shorter.               *)
LEMMA PathJoins ==
  ASSUME NEW edges, Drawn(edges), NEW src, src # None, NEW dst,
         NEW path, path = Path(edges, src, dst)
  PROVE  LET joined(n) == \E chain \in [1 .. n -> Names(edges)] : Joins(edges, chain, src, dst)
         IN  IF path = <<>> THEN \A n \in Nat \ {0} : ~joined(n)
             ELSE /\ path \in Seq(Names(edges)) /\ Joins(edges, path, src, dst)
                  /\ \A n \in 1 .. Len(path) - 1 : ~joined(n)
<1> DEFINE F == Names(edges)
           joined(n) == \E chain \in [1 .. n -> F] : Joins(edges, chain, src, dst)
           prev == Bfs(edges, src, dst)
<1>1. CASE {src, dst} \ F # {}
  <2>1. path = <<>>  BY <1>1 DEF Path
  <2>2. ASSUME NEW n \in Nat \ {0}, NEW chain \in [1 .. n -> F], Joins(edges, chain, src, dst)
        PROVE  FALSE
    <3>1. Len(chain) = n  BY SeqDef, LenProperties
    <3>2. chain[1] = src /\ chain[n] = dst  BY <2>2, <3>1 DEF Joins
    <3>3. 1 \in 1 .. n /\ n \in 1 .. n  OBVIOUS
    <3>4. src \in F /\ dst \in F  BY <3>2, <3>3
    <3> QED  BY <1>1, <3>4
  <2> QED  BY <2>1, <2>2
<1>2. CASE {src, dst} \subseteq F
  <2>1. src \in F  BY <1>2
  <2>2. PICK q, level : /\ Searched(edges, src, dst, q, prev, level)
                        /\ Len(q) = 0 \/ q[1] = dst
    BY <2>1, SearchEnds
  <2>3. path = IF dst \in DOMAIN prev THEN Back(prev, dst) ELSE <<>>  BY <1>2 DEF Path
  <2> HIDE DEF prev
  <2>4. Tree(edges, src, prev, level) /\ Waits(q, level)  BY <2>2, Zenon DEF Searched
  <2>5. /\ DOMAIN level = DOMAIN prev /\ DOMAIN prev \subseteq F /\ level[src] = 0
        /\ \A f \in DOMAIN prev : level[f] \in Nat
        /\ \A f \in DOMAIN prev \ {src} : prev[f] \in DOMAIN prev /\ f \in Adjacent(edges, prev[f])
        /\ prev[src] = None
    BY <2>4 DEF Tree
  <2>6. /\ q \in Seq(DOMAIN prev) /\ Len(q) \in Nat
        /\ \A i, j \in 1 .. Len(q) : i <= j => level[q[i]] <= level[q[j]]
    BY <2>4, <2>5 DEF Waits
  <2>7. ASSUME NEW n \in Nat \ {0}, Len(q) = 0 \/ n <= level[dst], joined(n) PROVE FALSE
    <3>1. PICK chain \in [1 .. n -> Names(edges)] : Joins(edges, chain, src, dst)  BY <2>7
    <3>2. \A i \in 1 .. Len(q) : n <= level[q[i]]
      <4> TAKE i \in 1 .. Len(q)
      <4>1. 1 \in 1 .. Len(q) /\ 1 <= i /\ Len(q) # 0  BY <2>6
      <4>2. level[q[1]] <= level[q[i]] /\ q[1] = dst  BY <2>2, <2>6, <4>1
      <4>3. level[q[1]] \in Nat /\ level[q[i]] \in Nat  BY <2>5, <2>6, <4>1
      <4>4. n <= level[q[1]]  BY <2>7, <4>1, <4>2
      <4> QED  BY <4>2, <4>3, <4>4
    <3> QED  BY <2>2, <3>1, <3>2, NoChainBefore
  <2>8. CASE dst \notin DOMAIN prev
    <3>1. Len(q) = 0
      <4> SUFFICES ASSUME Len(q) # 0 PROVE FALSE  OBVIOUS
      <4>1. 1 \in 1 .. Len(q)  BY <2>6
      <4> QED  BY <2>2, <2>6, <2>8, <4>1
    <3>2. path = <<>>  BY <2>3, <2>8
    <3> QED  BY <2>7, <3>1, <3>2
  <2>9. CASE dst \in DOMAIN prev
    <3>1. path = Back(prev, dst)  BY <2>3, <2>9
    <3>2. OnTheWayBack(prev, level, dst, path) /\ path[1] = src
      BY <2>4, <2>9, <3>1, BackEnds
    <3>3. /\ path \in Seq(DOMAIN prev) /\ Len(path) > 0 /\ Len(path) \in Nat
          /\ path[Len(path)] = dst /\ level[path[1]] + Len(path) = level[dst] + 1
          /\ \A i \in 1 .. Len(path) - 1 :
               prev[path[i + 1]] = path[i] /\ prev[path[i + 1]] # None
      BY <3>2 DEF OnTheWayBack
    <3>4. path # <<>>  BY <3>3
    <3>5. path \in Seq(Names(edges))  BY <2>5, <3>3, SeqMonotonic
    <3>6. Joins(edges, path, src, dst)
      <4>1. ASSUME NEW i \in 1 .. Len(path) - 1
            PROVE  {<<path[i], path[i + 1]>>, <<path[i + 1], path[i]>>} \cap edges # {}
        <5>1. i + 1 \in 1 .. Len(path)  BY <3>3
        <5>2. path[i + 1] \in DOMAIN prev  BY <3>3, <5>1
        <5>3. prev[path[i + 1]] = path[i] /\ path[i + 1] # src  BY <2>5, <3>3
        <5>4. path[i + 1] \in Adjacent(edges, path[i])  BY <2>5, <5>2, <5>3
        <5> QED  BY <5>4 DEF Adjacent
      <4> QED  BY <3>2, <3>3, <4>1 DEF Joins
    <3>7. \A n \in 1 .. Len(path) - 1 : ~joined(n)
      <4> SUFFICES ASSUME NEW n \in 1 .. Len(path) - 1, joined(n) PROVE FALSE  OBVIOUS
      <4>1. n \in Nat \ {0}  BY <3>3
      <4>2. level[dst] \in Nat /\ level[dst] + 1 = Len(path)  BY <2>5, <2>9, <3>2, <3>3
      <4>3. n <= level[dst]  BY <3>3, <4>1, <4>2
      <4> QED  BY <2>7, <4>1, <4>3
    <3> QED  BY <3>4, <3>5, <3>6, <3>7
  <2> QED  BY <2>8, <2>9
<1> QED  BY <1>1, <1>2

LEMMA CaptureDrawn ==
  ASSUME ReadsInv, HeardInv PROVE Drawn(Edges(Capture))
<1> DEFINE C == Capture
           E == Edges(C)
<1>1. IsFiniteSet(C) /\ \A s \in C : {s.parent, s.child} \subseteq Nat \ {None}
  BY CaptureFinite, CaptureFrames
<1> HIDE DEF C
<1>2. IsFiniteSet(E)
  <2> DEFINE f == [s \in C |-> <<s.parent, s.child>>]
  <2>1. f \in Surjection(C, E)  BY DEF Surjection, Edges
  <2> QED  BY <1>1, <2>1, FS_Surjection
<1>3. \A e \in E : e = <<e[1], e[2]>> /\ e[1] \in Nat \ {None} /\ e[2] \in Nat \ {None}
  <2> TAKE e \in E
  <2>1. PICK s \in C : e = <<s.parent, s.child>>  BY DEF Edges
  <2>2. e[1] = s.parent /\ e[2] = s.child  BY <2>1
  <2> QED  BY <1>1, <2>1, <2>2
<1>4. Names(E) \subseteq Nat \ {None}  BY <1>3 DEF Names, Children
<1> QED  BY <1>2, <1>3, <1>4 DEF Drawn, C

(* The report of inspect_tf is true of whatever was captured: it alarms    *)
(* over the shape of the frames exactly when they are not one tree, joins  *)
(* two frames by a shortest chain of transforms when there is one, and     *)
(* tells the edges that fell silent.                                       *)
THEOREM ReadsTellTheTree == ReadsSpec => []TreeAlarmsAreTrue
<1> DEFINE C == Capture
           E == Edges(C)
           src == ask.source
           dst == ask.target
           said == BuildTfReport(C, ask.stale, src, dst, Links).findings
<1>1. ReadsInv /\ HeardInv => SilentEdgeIsTold
  <2> SUFFICES ASSUME ReadsInv, HeardInv PROVE SilentEdgeIsTold
    OBVIOUS
  <2>1. IsFiniteSet(C)  BY CaptureFinite
  <2>2. \A s \in C : ~s.static
          /\ Reference(C) - MaxOf(Stamps(Dynamic(C, <<s.parent, s.child>>))) > ask.stale
          => \/ Finding("stale", <<s.parent, s.child>>) \in Report.findings
             \/ \E f \in Report.findings : f.kind = "two_parents" /\ f.frames[1] = s.child
    <3> HIDE DEF C
    <3>1. IsFiniteSet(C) /\ Report = BuildTfReport(C, ask.stale, ask.source, ask.target, Links)
      BY <2>1 DEF C, Report
    <3> QED  BY <3>1, SilentEdge
  <2> QED  BY <2>2, Zenon DEF SilentEdgeIsTold
<1>2. Report.findings = said /\ Report.path = Path(E, src, dst)
  BY DEF Report, BuildTfReport
<1>3. ReadsInv /\ HeardInv => AlarmedByShape
  <2> SUFFICES ASSUME ReadsInv, HeardInv PROVE AlarmedByShape
    OBVIOUS
  <2>1. Drawn(E)  BY CaptureDrawn
  <2> DEFINE fine == \E r \in Names(E) : Roots(E) = {r} /\ HangsFrom(E, r) /\ OneParent(E)
  <2>2. (\/ TwoParentFindings(E) # {}
         \/ DisconnectedFindings(E) # {}
         \/ CycleFindings(Chosen(C)) # {}) <=> E # {} /\ ~fine
    <3> HIDE DEF C
    <3> QED  BY <2>1, ShapeIsTold
  <2>3. /\ (\E f \in said : f.kind = "two_parents") <=> TwoParentFindings(E) # {}
        /\ (\E f \in said : f.kind = "disconnected") <=> DisconnectedFindings(E) # {}
        /\ (\E f \in said : f.kind = "cycle") <=> CycleFindings(Chosen(C)) # {}
    BY FoundByKind
  <2>4. (\E k \in {"two_parents", "disconnected", "cycle"} : Has(k)) <=> E # {} /\ ~fine
    <3> HIDE DEF C, E, said, fine
    <3> QED  BY <1>2, <2>2, <2>3 DEF Has
  <2> QED  BY <2>4, Zenon DEF AlarmedByShape, HangsFrom, Below, OneParent
<1>4. ReadsInv /\ HeardInv => PathIsShortest
  <2> SUFFICES ASSUME ReadsInv, HeardInv, src # None PROVE PathIsShortest
    BY DEF PathIsShortest
  <2>1. Drawn(E)  BY CaptureDrawn
  <2> DEFINE path == Path(E, src, dst)
             joined(n) == \E chain \in [1 .. n -> Names(E)] : Joins(E, chain, src, dst)
  <2>2. IF path = <<>> THEN \A n \in Nat \ {0} : ~joined(n)
        ELSE /\ path \in Seq(Names(E)) /\ Joins(E, path, src, dst)
             /\ \A n \in 1 .. Len(path) - 1 : ~joined(n)
    <3> HIDE DEF E
    <3> QED  BY <2>1, PathJoins
  <2>3. path = <<>> => Has("no_path")
    <3>1. (\E f \in said : f.kind = "no_path") <=> NoPathFindings(E, src, dst) # {}
      BY FoundByKind
    <3>2. path = <<>> => NoPathFindings(E, src, dst) # {}  BY DEF NoPathFindings
    <3> HIDE DEF E, said, path
    <3> QED  BY <1>2, <3>1, <3>2 DEF Has
  <2>4. Cardinality(Names(E)) \in Nat
    <3>1. IsFiniteSet(Names(E))  BY <2>1, DrawnFinite
    <3> QED  BY <3>1, FS_CardinalityType
  <2>5. \A n \in 1 .. Cardinality(Names(E)) : n \in Nat \ {0}  BY <2>4
  <2> HIDE DEF E, joined, path
  <2>6. IF path = <<>> THEN Has("no_path") /\ ~\E n \in 1 .. Cardinality(Names(E)) : joined(n)
        ELSE /\ path \in Seq(Names(E)) /\ Joins(E, path, src, dst)
             /\ ~\E n \in 1 .. Len(path) - 1 : joined(n)
    BY <2>2, <2>3, <2>5
  <2> QED  BY <1>2, <2>6, Zenon DEF PathIsShortest, E, joined, path
<1>5. ReadsInv /\ HeardInv => TreeAlarmsAreTrue
  BY <1>1, <1>3, <1>4, Zenon DEF TreeAlarmsAreTrue
<1> QED  BY <1>5, ReadsHeard, PTL

=============================================================================
